---- MODULE Spec2Model ----
(***************************************************************************)
(* Acquisition search state machines of the GNSS receiver:                 *)
(*   galileo_pcps_8ms_acquisition_cc   (two-codes variant, "gal")          *)
(*   pcps_acquisition_fine_doppler_cc  (accumulated grid + fine Doppler,   *)
(*                                      "fd")                              *)
(* and the tracking state machine dll_pll_veml_tracking_fpga ("trk"),      *)
(* specified separately as TrkSpec.                                        *)
(* Every general_work call is one action.  Samples are small integers and  *)
(* the FFT-based convolution is the exact circular cross-correlation it    *)
(* computes, times d_fft_size.  Floating-point quantities are fractions:    *)
(*   magnitudes   in units of 1/d_fft_size^4 (fft_normalization_factor^2), *)
(*   input power  in units of 1/d_fft_size,                                *)
(*   thresholds   as <<numerator, denominator>>.                           *)
(***************************************************************************)
EXTENDS Integers, Sequences, FiniteSets, TLC

\* ------------------------------------------------------------------ bounds
MaxDwellsCfg == 2        \* d_max_dwells is configured in 0..MaxDwellsCfg
WellCountBits == 2       \* width of the unsigned dwell counter (scaled down)
SampleCounterBits == 3   \* width of the unsigned sample counter (scaled down)
MaxItems == 2            \* ninput_items[0] is in 1..MaxItems
MaxQueue == 2            \* activations stop once the channel queue holds this many
MaxAttemptSamples == 4   \* fine-Doppler configurations accumulate at most this many samples per attempt

\* --------------------------------------------------------- configuration
SamplesPerCode == 2      \* samples_per_code (gal) and samples_per_ms (fd)
d_fs_in == 32000         \* sampling frequency [Hz]: the zero-padded FFT bins are whole Hz
\* the configured thresholds, as fractions <<numerator, denominator>>
Thresholds == {<<1, 4>>, <<1, 1>>}
SampleValues == {-1, 1}   \* full-scale samples of a 1-bit front end
\* (doppler_max, doppler_step) pairs; the second step does not divide 2*doppler_max
DopplerConfigs == {<<500, 500>>, <<600, 500>>}

VARIABLES
    variant,                 \* "gal", "fd" or "trk": which block this instance is
    d_max_dwells, d_threshold, d_doppler_max, d_doppler_step,
    d_config_doppler_min,    \* fd only
    d_sampled_ms, d_fft_size,
    d_num_doppler_bins,      \* gal: d_num_doppler_bins, fd: d_num_doppler_points
    code,                    \* local code handed to set_local_code, 0..d_fft_size-1
    d_state, d_active, d_well_count, d_sample_counter,
    nitems_read,             \* items consumed from input 0 (consume_each)
    d_mag, d_input_power, d_test_statistics,
    d_grid_data,             \* fd only: accumulated search grid [bin][index]
    Acq_delay_samples, Acq_doppler_hz, Acq_samplestamp_samples,
    queue,                   \* d_channel_internal_queue, with d_active/d_state at each push
    h_in,                    \* input blocks of the dwells of the current attempt
    h_attempt,               \* history of the current attempt (dwells, decisions, messages)
    \* ---- dll_pll_veml_tracking_fpga (d_state and d_sample_counter are shared names)
    pc,                      \* general_work: "idle", "loop" (loop condition), "case", "wait"
    Flag_valid_symbol_output, loss_of_lock,      \* locals of general_work
    out, returned,           \* general_work: the record in *out[0] and the return value
    d_setlock,               \* "free" or "general_work"
    d_carrier_lock_fail_counter, d_code_lock_fail_counter, d_cn0_estimation_counter,
    d_CN0_SNV_dB_Hz, d_carrier_lock_test, d_pull_in_transitory,
    d_Prompt_buffer, d_Prompt_circular_buffer, d_Flag_PLL_180_deg_phase_locked,
    d_sample_counter_next, d_extend_correlation_symbols_count, d_current_data_symbol,
    d_P_accu,                \* d_E_accu, d_P_accu, d_L_accu: number of blocks summed
    d_P_data_accu,           \* d_P_data_accu: number of blocks summed in it
    d_current_symbol,
    Prompt_I,                \* current_synchro_data.Prompt_I: number of blocks summed
    d_dll_filt_history,      \* filtered code errors, at most DllHistoryCapacity
    d_corrected_doppler,
    h_corrections,           \* corrections of the carrier filter since start_tracking
    d_trk_parameters,
    d_dump, d_dump_file,     \* the dump switch and the state of the dump stream
    d_current_fpga_integration_period,
    d_T_prn_samples, d_K_blk_samples,            \* code NCO, in 1/SampleFraction samples
    d_rem_code_phase_samples, d_rem_code_phase_samples_prev,
    d_current_integration_length_samples,        \* block lengths, in samples
    d_next_integration_length_samples,
    d_local_code_shift_chips,                    \* the correlator tap spacing in use
    d_acq_sample_stamp, d_acq_code_phase_samples,
    ctl,                     \* control thread: "idle", "set_gnss_synchro", "start_tracking"
    d_acquisition_gnss_synchro,                  \* PRN of the object pointed to, or NullPtr
    d_stop_tracking, d_worker_is_done,
    channel_locked,          \* FPGA channel: lock_channel() / unlock_channel()
    initial_sample,          \* FPGA channel: set_initial_sample()
    events,                  \* unread messages on the events port
    h_trk                    \* history of the handshake, the faults and the evaluations

\* the code NCO of the tracking block: its arithmetic is followed in NcoSpec, the
\* other specifications keep the block length of the constructor
ncovars == <<d_T_prn_samples, d_K_blk_samples, d_rem_code_phase_samples,
             d_rem_code_phase_samples_prev, d_current_integration_length_samples,
             d_next_integration_length_samples>>
blockcfg == <<variant, d_max_dwells, d_threshold, d_doppler_max, d_doppler_step,
              d_config_doppler_min, d_sampled_ms, d_fft_size, d_num_doppler_bins, code>>
cfgvars == <<blockcfg, ncovars>>
synchro == <<Acq_delay_samples, Acq_doppler_hz, Acq_samplestamp_samples>>
acqconst == <<cfgvars, d_active, d_well_count, d_mag, d_input_power, d_test_statistics,
              d_grid_data, queue, h_in, h_attempt, nitems_read>>
acqvars == <<acqconst, synchro, d_state, d_sample_counter>>
gwvars == <<pc, Flag_valid_symbol_output, loss_of_lock, Prompt_I, out, returned>>
lockvars == <<d_setlock>>
accuvars == <<d_P_accu, d_P_data_accu, d_current_symbol>>
dopvars == <<d_dll_filt_history, d_corrected_doppler, h_corrections>>
trackvars == <<d_carrier_lock_fail_counter, d_code_lock_fail_counter,
               d_cn0_estimation_counter, d_CN0_SNV_dB_Hz, d_carrier_lock_test,
               d_pull_in_transitory, d_Prompt_buffer, d_Prompt_circular_buffer,
               d_Flag_PLL_180_deg_phase_locked, d_sample_counter_next,
               d_extend_correlation_symbols_count, d_current_data_symbol, d_trk_parameters,
               d_dump, d_dump_file, d_current_fpga_integration_period,
               d_local_code_shift_chips, accuvars>>
acqcopy == <<d_acq_sample_stamp, d_acq_code_phase_samples>>
ctlvars == <<ctl, d_acquisition_gnss_synchro>>
fpgavars == <<channel_locked, initial_sample>>
trkvars == <<gwvars, lockvars, trackvars, dopvars, acqcopy, ctlvars, d_stop_tracking,
             d_worker_is_done, fpgavars, events, h_trk>>
vars == <<acqvars, trkvars>>

\* ---------------------------------------------------------------- helpers
RECURSIVE SumTo(_, _)
\* sum of f[0..n-1]
SumTo(f, n) == IF n = 0 THEN 0 ELSE f[n - 1] + SumTo(f, n - 1)

Abs(x) == IF x < 0 THEN -x ELSE x

Indices(N) == 0 .. (N - 1)

\* the input blocks: every block of full-scale samples, and the silent block
Blocks(N) == [Indices(N) -> SampleValues] \cup {[n \in Indices(N) |-> 0]}

\* the Barker codes of length 2 and 4, repeated for longer codes
Barker(n, L) == IF L = 2 THEN (IF n % 2 = 0 THEN 1 ELSE -1)
                ELSE (IF n % 4 = 2 THEN -1 ELSE 1)

\* the function f with every value computed (an array filled in once)
Array(f) == f @@ <<>>

\* ------------------------------------------------ exact fractions (floats)
\* A test statistic num / (den * sqrt(wc)); den = 0 is a division by zero
\* (NaN when num = 0, +infinity when num > 0).
Stat(num, den, wc) == [num |-> num, den |-> den, wc |-> wc]

StatZero == Stat(0, 1, 1)

\* T > thr[1]/thr[2] in IEEE arithmetic (false for NaN, true for +infinity)
StatGT(T, thr) ==
    (T.num * thr[2]) * (T.num * thr[2]) > (thr[1] * T.den) * (thr[1] * T.den) * T.wc

\* ------------------------------------------------------ correlator engine
\* carrier wipe-off sample n of Doppler bin k (complex_exp_gen_conj / fxp_nco),
\* hard-limited to the real values +1/-1, carrier frequency k * fs/4
Wipeoff(k, n) == IF (k * n) % 4 \in {0, 1} THEN 1 ELSE -1

\* volk_32fc_x2_multiply_32fc(in, wipeoff)
WipedOff(in, k, N) == Array([n \in Indices(N) |-> in[n] * Wipeoff(k, n)])

\* circular cross-correlation of x with the code c at delay i
CircCorr(x, c, i, N) == SumTo([n \in Indices(N) |-> x[(n + i) % N] * c[n]], N)

\* IFFT(FFT(x) .* conj(FFT(c)))[i]; the forward and the inverse transform are not
\* normalized, which leaves the factor N
Convolution(x, c, i, N) == N * CircCorr(x, c, i, N)

\* volk_32fc_magnitude_squared_32f of the inverse FFT output
MagnitudeSquared(x, c, N) ==
    Array([i \in Indices(N) |-> Convolution(x, c, i, N) * Convolution(x, c, i, N)])

\* variation of IndexMax: the first index, whatever the values
IndexMax_First(f, N) == 0

\* volk_32f_index_max_16u: first index holding the maximum
IndexMax(f, N) ==
    CHOOSE i \in Indices(N) :
        /\ \A j \in Indices(N) : f[j] <= f[i]
        /\ \A j \in Indices(N) : j < i => f[j] < f[i]

\* volk_32fc_magnitude_squared + volk_32f_accumulator: sum |in|^2 (power * d_fft_size)
InputPower(in, N) == SumTo([n \in Indices(N) |-> in[n] * in[n]], N)

RECURSIVE CountBins_Exclusive(_, _, _)
\* variation of CountBins: the loop stops before doppler_max
CountBins_Exclusive(doppler, dmax, step) ==
    IF doppler < dmax THEN 1 + CountBins_Exclusive(doppler + step, dmax, step) ELSE 0

\* ---------------------------------------------------------- Doppler grids
RECURSIVE CountBins(_, _, _)
\* gal init(): for (doppler = -doppler_max; doppler <= doppler_max; doppler += step) bins++
CountBins(doppler, dmax, step) ==
    IF doppler <= dmax THEN 1 + CountBins(doppler + step, dmax, step) ELSE 0

\* gal: doppler = -(int)d_doppler_max + d_doppler_step * doppler_index
GalDoppler(k) == (-d_doppler_max) + d_doppler_step * k

\* fd set_doppler_step(): floor(abs(doppler_max - doppler_min) / doppler_step)
NumDopplerPoints(dmax, dmin, step) == Abs(dmax - dmin) \div step

\* fd: doppler_hz = d_config_doppler_min + d_doppler_step * doppler_index
FdDoppler(k) == d_config_doppler_min + d_doppler_step * k

\* ----------------------------------------------------- galileo_pcps_8ms
\* the codes handed to set_local_code: two replicas of a primary code
GalCodes == {[n \in Indices(2 * SamplesPerCode) |-> Barker(n % SamplesPerCode, SamplesPerCode)]}

\* set_local_code: code A is the code as handed over
CodeA(c) == c

\* set_local_code: code B has the second replica inverted
CodeB(c) == [n \in DOMAIN c |->
               IF n >= SamplesPerCode /\ n < 2 * SamplesPerCode THEN -c[n] ELSE c[n]]

\* largest number of Doppler bins of any configuration
MaxBins == CHOOSE m \in 0 .. 64 :
             /\ \A dc \in DopplerConfigs : CountBins(-dc[1], dc[1], dc[2]) <= m
             /\ \E dc \in DopplerConfigs : CountBins(-dc[1], dc[1], dc[2]) = m

\* case 1, one Doppler bin: peak (magt, indext) of the larger of the code A and
\* code B correlations of the block in, carrier wiped off with bin k
GalPeakOf(c, k, in) ==
    LET N == 2 * SamplesPerCode
        wiped == WipedOff(in, k, N)
        magnitude_A == MagnitudeSquared(wiped, CodeA(c), N)
        indext_A == IndexMax(magnitude_A, N)
        magt_A == magnitude_A[indext_A]
        magnitude_B == MagnitudeSquared(wiped, CodeB(c), N)
        indext_B == IndexMax(magnitude_B, N)
        magt_B == magnitude_B[indext_B]
    IN  IF magt_A >= magt_B
        THEN [magt |-> magt_A, indext |-> indext_A]
        ELSE [magt |-> magt_B, indext |-> indext_B]

\* GalPeakOf tabulated over codes, bins and input blocks
GalPeak == Array([c \in GalCodes |-> Array([k \in Indices(MaxBins) |->
              Array([in \in Blocks(2 * SamplesPerCode) |-> GalPeakOf(c, k, in)])])])

\* one iteration of the Doppler search loop of case 1; acc holds d_mag and the synchro
GalBin(k, in, acc) ==
    LET magt == GalPeak[code][k][in].magt
        indext == GalPeak[code][k][in].indext
    IN  IF acc.mag < magt
        THEN [mag |-> magt, delay |-> indext % SamplesPerCode, doppler |-> GalDoppler(k),
              stamp |-> acc.stamp_now, stamp_now |-> acc.stamp_now]
        ELSE acc

RECURSIVE GalSearch(_, _, _)
\* the Doppler frequency search loop, bins k .. d_num_doppler_bins-1
GalSearch(k, in, acc) ==
    IF k >= d_num_doppler_bins THEN acc ELSE GalSearch(k + 1, in, GalBin(k, in, acc))

\* ------------------------------------------------------- shared machinery
WellCountMod == 2 ^ WellCountBits

SampleCounterMod == 2 ^ SampleCounterBits

\* d_sample_counter += n on the unsigned counter
AddSamples(counter, n) == (counter + n) % SampleCounterMod

\* variation of consume_each: one item is consumed whatever n is
consume_each_One(n) == (nitems_read + 1) % SampleCounterMod

\* consume_each(n): n more items of the input are consumed; the count of items has
\* the width of the sample counter
consume_each(n) == (nitems_read + n) % SampleCounterMod

\* variation of Push: the message is queued twice
Push_Twice(q, msg, active, state) ==
    Append(Append(q, [msg |-> msg, active |-> active, state |-> state]),
           [msg |-> msg, active |-> active, state |-> state])

\* d_channel_internal_queue->push(msg); each entry also records d_active and d_state
\* as they stand when push is called
Push(q, msg, active, state) == Append(q, [msg |-> msg, active |-> active, state |-> state])

\* the attempt counters stop one past the longest attempt, WellCountMod dwells
Saturated(n) == IF n > WellCountMod THEN WellCountMod + 1 ELSE n

\* bookkeeping of the current attempt: dwells and decisions made, the number of the
\* first dwell that exceeded the threshold (0: none yet), the largest peak of any dwell
NoAttempt == [dwells |-> 0, decides |-> 0, exceeded |-> 0, best |-> 0]

\* =========================================================================
\* dll_pll_veml_tracking_fpga: the tracking state machine ("trk").  One action
\* per step of a thread: general_work holds d_setlock from its first statement
\* to its return, except while it waits in the PullIn case; the handlers that
\* take d_setlock are single steps; set_gnss_synchro and start_tracking also
\* have a part that runs without the lock.
\* =========================================================================

\* ------------------------------------------- tracking bounds and configuration
MaxTrkSamples == 10       \* tracking cycles stop once d_sample_counter_next would pass this
TrkCounterBits == 4       \* width of the unsigned 64-bit sample counters (scaled down)
MaxFpgaCounter == 1       \* read_sample_counter() returns 0..MaxFpgaCounter, or late
FrameProductBits == 3     \* width of the unsigned 32-bit product in PullIn (scaled down)
MaxEvents == 1            \* the events port holds at most this many unread messages
cn0_samples == 1          \* d_trk_parameters.cn0_samples
max_carrier_lock_fail == 1
max_code_lock_fail == 1
cn0_min == 25             \* [dB-Hz]
carrier_lock_th == 85     \* d_carrier_lock_threshold, in 1/100
vector_length == 2        \* samples per integration block
trk_fs_in == 2            \* d_trk_parameters.fs_in [samples/s]
pull_in_time_s == 0
bit_synchronization_time_limit_s == 2
GPS_CA_PREAMBLE_LENGTH_SYMBOLS == 2       \* scaled down
GPS_CA_TELEMETRY_SYMBOLS_PER_BIT == 2     \* scaled down
GPS_L1_FREQ_HZ == 1575420000
GALILEO_E1_FREQ_HZ == 1575420000
TelemetryFault == 200000  \* value forced by the telemetry-fault handler
SyncTimeout == 300000     \* value forced by the synchronization fail-safe
NullPtr == -1             \* d_acquisition_gnss_synchro before the first set_gnss_synchro

d_secondary_code_string == <<"0", "1">>
DllHistoryCapacity == 2          \* d_dll_filt_history.set_capacity(1000), scaled down
CodeErrors == {0, 2}             \* d_code_error_filt_chips [chips/s]
PromptValues == {-1, 1}          \* real part of the Prompt correlator output
CN0Levels == {0, 40}             \* outputs of d_cn0_smoother.smooth [dB-Hz]
LockTestLevels == {50, 100}      \* outputs of d_carrier_lock_test_smoother.smooth, in 1/100
AcqStamps == {0, 2}                \* Acq_samplestamp_samples written by the acquisition
AcqDelays == {0}                 \* Acq_delay_samples written by the acquisition
\* the configurations handed to the constructor (conf_): GPS L1 C/A with a coherent
\* integration of 2 symbols, outside and inside the FPGA
TrkConfigs ==
    { [system |-> "G", signal |-> "1C", extend_correlation_symbols |-> 2,
       extended_correlation_in_fpga |-> FALSE, extend_fpga_integration_periods |-> 1,
       fpga_integration_period |-> 1, dump |-> FALSE,
       enable_doppler_correction |-> FALSE],
      [system |-> "G", signal |-> "1C", extend_correlation_symbols |-> 2,
       extended_correlation_in_fpga |-> TRUE, extend_fpga_integration_periods |-> 2,
       fpga_integration_period |-> 1, dump |-> FALSE,
       enable_doppler_correction |-> FALSE] }

\* further configurations: Galileo E1 with a coherent integration of 3 symbols and the
\* dump requested, GPS L1 C/A with the 2 symbols integrated in one period of the FPGA,
\* GPS L1 C/A without extended integration, three configurations whose signal or
\* system is not known, and GPS L1 C/A with the carrier Doppler correction enabled
OtherConfigs ==
    { [system |-> "E", signal |-> "1B", extend_correlation_symbols |-> 3,
       extended_correlation_in_fpga |-> FALSE, extend_fpga_integration_periods |-> 1,
       fpga_integration_period |-> 1, dump |-> TRUE,
       enable_doppler_correction |-> FALSE],
      [system |-> "G", signal |-> "1C", extend_correlation_symbols |-> 2,
       extended_correlation_in_fpga |-> TRUE, extend_fpga_integration_periods |-> 1,
       fpga_integration_period |-> 2, dump |-> FALSE,
       enable_doppler_correction |-> FALSE],
      [system |-> "G", signal |-> "1C", extend_correlation_symbols |-> 1,
       extended_correlation_in_fpga |-> FALSE, extend_fpga_integration_periods |-> 1,
       fpga_integration_period |-> 1, dump |-> FALSE,
       enable_doppler_correction |-> FALSE],
      [system |-> "G", signal |-> "1B", extend_correlation_symbols |-> 1,
       extended_correlation_in_fpga |-> FALSE, extend_fpga_integration_periods |-> 1,
       fpga_integration_period |-> 1, dump |-> FALSE,
       enable_doppler_correction |-> FALSE],
      [system |-> "E", signal |-> "1C", extend_correlation_symbols |-> 1,
       extended_correlation_in_fpga |-> FALSE, extend_fpga_integration_periods |-> 1,
       fpga_integration_period |-> 1, dump |-> FALSE,
       enable_doppler_correction |-> FALSE],
      [system |-> "R", signal |-> "1C", extend_correlation_symbols |-> 1,
       extended_correlation_in_fpga |-> FALSE, extend_fpga_integration_periods |-> 1,
       fpga_integration_period |-> 1, dump |-> FALSE,
       enable_doppler_correction |-> FALSE],
      [system |-> "G", signal |-> "1C", extend_correlation_symbols |-> 1,
       extended_correlation_in_fpga |-> FALSE, extend_fpga_integration_periods |-> 1,
       fpga_integration_period |-> 1, dump |-> FALSE,
       enable_doppler_correction |-> TRUE] }

\* constructor, for a signal or a system that is not known
DegenerateConfiguration ==
    [d_signal_carrier_freq |-> 0, d_code_period |-> 0, d_symbols_per_bit |-> 0,
     d_secondary |-> FALSE, d_correlation_length_ms |-> 1, d_veml |-> FALSE,
     d_secondary_code_length |-> 0, d_data_secondary_code_length |-> 0]

\* variation of SignalConfiguration: a Galileo block takes every signal for E1
SignalConfiguration_AnySignal(system, signal) ==
    IF system = "G" /\ signal = "1C"
    THEN [d_signal_carrier_freq |-> GPS_L1_FREQ_HZ, d_code_period |-> 1,
          d_symbols_per_bit |-> GPS_CA_TELEMETRY_SYMBOLS_PER_BIT,
          d_secondary |-> FALSE, d_correlation_length_ms |-> 1, d_veml |-> FALSE,
          d_secondary_code_length |-> GPS_CA_PREAMBLE_LENGTH_SYMBOLS,
          d_data_secondary_code_length |-> 0]
    ELSE IF system = "E"
    THEN [d_signal_carrier_freq |-> GALILEO_E1_FREQ_HZ, d_code_period |-> 4,
          d_symbols_per_bit |-> 1, d_secondary |-> FALSE,
          d_correlation_length_ms |-> 4, d_veml |-> TRUE,
          d_secondary_code_length |-> 0, d_data_secondary_code_length |-> 0]
    ELSE DegenerateConfiguration

\* constructor: the members set from the system and the signal, for GPS L1 C/A ("1C"),
\* for Galileo E1 ("1B") without the pilot, and for what is not known; d_code_period
\* in milliseconds
SignalConfiguration(system, signal) ==
    IF system = "G" /\ signal = "1C"
    THEN [d_signal_carrier_freq |-> GPS_L1_FREQ_HZ, d_code_period |-> 1,
          d_symbols_per_bit |-> GPS_CA_TELEMETRY_SYMBOLS_PER_BIT,
          d_secondary |-> FALSE, d_correlation_length_ms |-> 1, d_veml |-> FALSE,
          d_secondary_code_length |-> GPS_CA_PREAMBLE_LENGTH_SYMBOLS,
          d_data_secondary_code_length |-> 0]
    ELSE IF system = "E" /\ signal = "1B"
    THEN [d_signal_carrier_freq |-> GALILEO_E1_FREQ_HZ, d_code_period |-> 4,
          d_symbols_per_bit |-> 1, d_secondary |-> FALSE,
          d_correlation_length_ms |-> 4, d_veml |-> TRUE,
          d_secondary_code_length |-> 0, d_data_secondary_code_length |-> 0]
    ELSE DegenerateConfiguration

\* the members of this block, as its constructor set them
Configured == SignalConfiguration(d_trk_parameters.system, d_trk_parameters.signal)

d_symbols_per_bit == Configured.d_symbols_per_bit
d_secondary == Configured.d_secondary
d_secondary_code_length == Configured.d_secondary_code_length
d_data_secondary_code_length == Configured.d_data_secondary_code_length

\* constructor: d_n_correlator_taps
d_n_correlator_taps == IF Configured.d_veml THEN 5 ELSE 3

TrkCounterMod == 2 ^ TrkCounterBits

\* constructor: d_enable_extended_integration
d_enable_extended_integration == d_trk_parameters.extend_correlation_symbols > 1

\* a - b in unsigned arithmetic
UDiff(a, b) == (a - b + TrkCounterMod) % TrkCounterMod

\* (d_sample_counter - d_acq_sample_stamp) / static_cast<int>(fs_in): whole seconds
\* between the acquisition sample stamp and the sample counter
ElapsedSeconds(counter) == UDiff(counter, d_acq_sample_stamp) \div trk_fs_in

\* variation: the test without waiting for the sample counter to be read
PullInTransitoryOver_CounterUnread ==
    /\ d_pull_in_transitory
    /\ pull_in_time_s < ElapsedSeconds(d_sample_counter)

\* the pull-in transitory test at the top of the loop
PullInTransitoryOver ==
    /\ d_pull_in_transitory
    /\ d_sample_counter > 0
    /\ pull_in_time_s < ElapsedSeconds(d_sample_counter)

\* the next value of d_cn0_estimation_counter; above cn0_samples only its remainder
\* modulo cn0_samples is used, so the counter is kept in cn0_samples .. 2*cn0_samples-1
NextEstimationCounter(n) == IF n + 1 >= 2 * cn0_samples THEN cn0_samples ELSE n + 1

\* variation of CarrierUpdate: no floor at 0
CarrierUpdate_NoFloor(counter, test) ==
    IF test < carrier_lock_th THEN counter + 1 ELSE counter - 1

\* loss of lock detection, carrier part
CarrierUpdate(counter, test) ==
    IF test < carrier_lock_th THEN counter + 1
    ELSE IF counter > 0 THEN counter - 1 ELSE counter

\* variation of CodeUpdate: no floor at 0
CodeUpdate_NoFloor(counter, cn0) ==
    IF cn0 < cn0_min THEN counter + 1 ELSE counter - 1

\* loss of lock detection, code part
CodeUpdate(counter, cn0) ==
    IF cn0 < cn0_min THEN counter + 1
    ELSE IF counter > 0 THEN counter - 1 ELSE counter

\* variation of LossOfLock: the code lock fail counter is not looked at
LossOfLock_CarrierOnly(carrier, codec) == carrier > max_carrier_lock_fail

\* variation of LossOfLock: the maxima themselves already lose lock
LossOfLock_AtMaximum(carrier, codec) ==
    carrier >= max_carrier_lock_fail \/ codec >= max_code_lock_fail

\* the loss-of-lock test on the updated counters
LossOfLock(carrier, codec) ==
    carrier > max_carrier_lock_fail \/ codec > max_code_lock_fail

\* variation of FillingBuffer: the pass-through ends one evaluation early
FillingBuffer_OneShort(n) == n + 1 < cn0_samples

\* the CN0 buffer has not been filled once yet
FillingBuffer(n) == n < cn0_samples

\* cn0_and_tracking_lock_status(): carrier is d_carrier_lock_fail_counter as the caller
\* left it, P the Prompt value, cn0 and test the outputs of the two smoothers
cn0_and_tracking_lock_status(carrier, P, cn0, test) ==
    IF FillingBuffer(d_cn0_estimation_counter)
    THEN [keepLock |-> TRUE, full |-> FALSE,
          buffer |-> [d_Prompt_buffer EXCEPT ![d_cn0_estimation_counter] = P],
          counter |-> d_cn0_estimation_counter + 1,
          cn0 |-> d_CN0_SNV_dB_Hz, test |-> d_carrier_lock_test,
          upd_carrier |-> carrier, upd_code |-> d_code_lock_fail_counter,
          carrier |-> carrier, codec |-> d_code_lock_fail_counter, event |-> FALSE]
    ELSE LET upd_carrier == IF d_pull_in_transitory THEN carrier
                            ELSE CarrierUpdate(carrier, test)
             upd_code == IF d_pull_in_transitory THEN d_code_lock_fail_counter
                         ELSE CodeUpdate(d_code_lock_fail_counter, cn0)
             lost == LossOfLock(upd_carrier, upd_code)
         IN  [keepLock |-> ~lost, full |-> TRUE,
              buffer |-> [d_Prompt_buffer EXCEPT
                             ![d_cn0_estimation_counter % cn0_samples] = P],
              counter |-> NextEstimationCounter(d_cn0_estimation_counter),
              cn0 |-> cn0, test |-> test,
              upd_carrier |-> upd_carrier, upd_code |-> upd_code,
              carrier |-> IF lost THEN 0 ELSE upd_carrier,
              codec |-> IF lost THEN 0 ELSE upd_code,
              event |-> lost]

\* d_Prompt_circular_buffer.push_back(x) on a buffer of capacity d_secondary_code_length
PushBack(buf, x) ==
    IF d_secondary_code_length = 0 THEN buf
    ELSE IF Len(buf) < d_secondary_code_length THEN Append(buf, x)
    ELSE Append(Tail(buf), x)

\* acquire_secondary(): one term of the preamble correlation
CorrTerm(p, c) ==
    IF p < 0 THEN (IF c = "0" THEN 1 ELSE -1)
    ELSE (IF c = "0" THEN -1 ELSE 1)

\* acquire_secondary(): corr_value
CorrValue(buf) ==
    SumTo([i \in Indices(d_secondary_code_length) |->
              CorrTerm(buf[i + 1], d_secondary_code_string[i + 1])],
          d_secondary_code_length)

\* variation of acquire_secondary: one disagreeing position is tolerated
acquire_secondary_Tolerant(buf, flag) ==
    LET corr_value == CorrValue(buf)
    IN  IF Abs(corr_value) >= d_secondary_code_length - 2
        THEN [accepted |-> TRUE, flag |-> corr_value < 0]
        ELSE [accepted |-> FALSE, flag |-> flag]

\* acquire_secondary(): the return value and d_Flag_PLL_180_deg_phase_locked
acquire_secondary(buf, flag) ==
    LET corr_value == CorrValue(buf)
    IN  IF Abs(corr_value) = d_secondary_code_length
        THEN [accepted |-> TRUE, flag |-> corr_value < 0]
        ELSE [accepted |-> FALSE, flag |-> flag]

\* ceil(delta / len) for delta > 0
NumFrames(delta, len) == (delta + len - 1) \div len

\* PullIn: num_frames * d_current_integration_length_samples, a uint32_t times an
\* int32_t, formed in unsigned 32-bit arithmetic before it is added to the doubles
FrameProduct(num_frames, len) == (num_frames * len) % (2 ^ FrameProductBits)

\* read_sample_counter(): the values tried, shortly after the acquisition and so long
\* after it that the product of PullIn no longer fits its type
LateFpgaCounter == 2 ^ FrameProductBits + 1
FpgaCounterValues == (0 .. MaxFpgaCounter) \cup {LateFpgaCounter}

\* PullIn: absolute_samples_offset for the FPGA counter value just read
AbsoluteSamplesOffset(counter_value) ==
    IF counter_value > d_acq_sample_stamp + d_acq_code_phase_samples
    THEN LET acq_trk_diff_samples == counter_value - d_acq_sample_stamp
             delta == acq_trk_diff_samples - d_acq_code_phase_samples
         IN  d_acq_code_phase_samples + d_acq_sample_stamp
                 + FrameProduct(NumFrames(delta, vector_length), vector_length)
    ELSE (d_acq_sample_stamp - counter_value) + d_acq_code_phase_samples

\* the state that follows a successful synchronization in state 2
StateAfterSync ==
    IF d_enable_extended_integration
    THEN IF d_trk_parameters.extended_correlation_in_fpga
         THEN (IF d_trk_parameters.extend_fpga_integration_periods > 1 THEN 5 ELSE 6)
         ELSE 3
    ELSE 4

\* the tap spacing that follows a successful synchronization in state 2: the narrow
\* spacing is set in the branch of the extended integration only
TapsAfterSync ==
    IF d_enable_extended_integration THEN "narrow" ELSE d_local_code_shift_chips

\* the history counters stop one past cn0_samples
TrkSaturated(n) == IF n > cn0_samples THEN cn0_samples + 1 ELSE n

\* bookkeeping: whether set_gnss_synchro with a valid PRN has run since the last
\* PullIn alignment, whether a start_tracking call has completed after it, whether a
\* telemetry fault received while tracking is outstanding, and the number of lock
\* evaluations since the last set_gnss_synchro with a valid PRN, and whether the
\* last general_work call began after stop_tracking()
NoTrkHistory ==
    [assigned |-> FALSE, signalled |-> FALSE, fault |-> FALSE, evals |-> 0,
     after_stop |-> FALSE, counter_value |-> 0, last_record |-> -1]

\* *out[0] before general_work has written it, and no return value yet
NoRecord == [written |-> FALSE]
NoReturn == -1

\* d_dump_file: whether the stream is open, whether exceptions(failbit | badbit) has
\* been set, whether its failbit is set, the records written (counted up to 1) and
\* whether a write has been attempted since the block was constructed
DumpFileClosed ==
    [is_open |-> FALSE, exceptions |-> FALSE, failbit |-> FALSE, records |-> 0,
     attempted |-> FALSE]

\* the tracking variables as the constructor leaves them
\* the code NCO quantities are fixed-point numbers with SampleFraction steps to the
\* sample; the block lengths are whole samples
SampleFraction == 2
\* d_T_prn_samples = d_T_prn_seconds * fs_in: 2.0 and 2.5 samples to the code period
PrnPeriods == {4, 5}

\* static_cast<int32_t>(std::floor(K)) of a fixed-point K
FloorSamples(K) == K \div SampleFraction

\* constructor: the code NCO
NcoConstructed ==
    /\ d_T_prn_samples = 0
    /\ d_K_blk_samples = 0
    /\ d_rem_code_phase_samples = 0
    /\ d_rem_code_phase_samples_prev = 0
    /\ d_current_integration_length_samples = vector_length
    /\ d_next_integration_length_samples = vector_length

TrkConstructed ==
    /\ NcoConstructed
    /\ pc = "idle"
    /\ ctl = "idle"
    /\ d_setlock = "free"
    /\ d_worker_is_done = FALSE
    /\ d_stop_tracking = FALSE
    /\ d_pull_in_transitory = TRUE
    /\ d_carrier_lock_fail_counter = 0
    /\ d_code_lock_fail_counter = 0
    /\ d_cn0_estimation_counter = 0
    /\ d_CN0_SNV_dB_Hz = 0
    /\ d_carrier_lock_test = 100
    /\ d_Prompt_buffer = [i \in Indices(cn0_samples) |-> 0]
    /\ d_Prompt_circular_buffer = <<>>
    /\ d_Flag_PLL_180_deg_phase_locked = FALSE
    /\ d_sample_counter_next = 0
    /\ d_acq_sample_stamp = 0
    /\ d_acq_code_phase_samples = 0
    /\ d_acquisition_gnss_synchro = NullPtr
    /\ d_extend_correlation_symbols_count = 0
    /\ d_current_data_symbol = 0
    /\ d_P_accu = 0
    /\ d_P_data_accu = 0
    /\ d_current_symbol = 0
    /\ Prompt_I = 0
    /\ d_dll_filt_history = <<>>
    /\ d_corrected_doppler = FALSE
    /\ h_corrections = 0
    /\ Flag_valid_symbol_output = FALSE
    /\ loss_of_lock = FALSE
    /\ out = NoRecord
    /\ returned = NoReturn
    /\ d_dump_file = DumpFileClosed
    /\ d_current_fpga_integration_period = 1
    /\ d_local_code_shift_chips = "wide"
    /\ events = 0
    /\ channel_locked = FALSE
    /\ initial_sample = 0
    /\ h_trk = NoTrkHistory

\* the tracking variables in the acquisition specifications
TrkDormant ==
    /\ TrkConstructed
    /\ d_trk_parameters = [system |-> "G", signal |-> "1C",
                           extend_correlation_symbols |-> 1,
                           extended_correlation_in_fpga |-> FALSE,
                           extend_fpga_integration_periods |-> 1,
                           fpga_integration_period |-> 1, dump |-> FALSE,
       enable_doppler_correction |-> FALSE]
    /\ d_dump = FALSE

\* =========================================================================
\* the acquisition blocks
\* =========================================================================
\* constructor + set_threshold/set_doppler_max/set_doppler_step/set_local_code + init()
InitCommon ==
    /\ TrkDormant
    /\ d_max_dwells \in 0 .. MaxDwellsCfg
    /\ d_threshold \in Thresholds
    /\ \E dc \in DopplerConfigs : d_doppler_max = dc[1] /\ d_doppler_step = dc[2]
    /\ d_state = 0
    /\ d_active = FALSE
    /\ d_sample_counter = 0
    /\ nitems_read = 0
    /\ d_mag = 0
    /\ d_input_power = 0
    /\ d_test_statistics = StatZero
    /\ Acq_delay_samples = 0
    /\ Acq_doppler_hz = 0
    /\ Acq_samplestamp_samples = 0
    /\ queue = <<>>
    /\ h_in = <<>>
    /\ h_attempt = NoAttempt

InitGal ==
    /\ variant = "gal"
    /\ InitCommon
    /\ d_well_count = 0
    /\ d_config_doppler_min = 0
    /\ d_sampled_ms = 2 * SamplesPerCode
    /\ d_fft_size = 2 * SamplesPerCode
    /\ d_num_doppler_bins = CountBins(-d_doppler_max, d_doppler_max, d_doppler_step)
    /\ code \in GalCodes
    /\ d_grid_data = <<>>

\* set_active(true), called by the channel
set_active ==
    /\ Len(queue) < MaxQueue
    /\ d_active' = TRUE
    /\ UNCHANGED <<trkvars, cfgvars, d_state, d_well_count, d_sample_counter, d_mag, d_input_power,
                   d_test_statistics, d_grid_data, synchro, queue, h_in, h_attempt,
                   nitems_read>>

\* galileo_pcps_8ms general_work, case 0
gal_StandBy ==
    /\ variant = "gal"
    /\ d_state = 0
    /\ \E ninput_items \in 1 .. MaxItems :
          /\ d_sample_counter' = AddSamples(d_sample_counter, d_fft_size * ninput_items)
          /\ nitems_read' = consume_each(ninput_items)
    /\ IF d_active
       THEN /\ Acq_delay_samples' = 0
            /\ Acq_doppler_hz' = 0
            /\ Acq_samplestamp_samples' = 0
            /\ d_well_count' = 0
            /\ d_mag' = 0
            /\ d_input_power' = 0
            /\ d_test_statistics' = StatZero
            /\ d_state' = 1
            /\ h_attempt' = NoAttempt
            /\ h_in' = <<>>
       ELSE UNCHANGED <<synchro, d_well_count, d_mag, d_input_power, d_test_statistics,
                        d_state, h_attempt, h_in>>
    /\ UNCHANGED <<trkvars, cfgvars, d_active, d_grid_data, queue>>

\* variation of GalDwell: the search starts from the peak of the earlier dwells
GalDwell_KeepPeak(in) ==
    GalSearch(0, in, [mag |-> d_mag, delay |-> Acq_delay_samples, doppler |-> Acq_doppler_hz,
                      stamp |-> Acq_samplestamp_samples,
                      stamp_now |-> AddSamples(d_sample_counter, d_fft_size)])

\* the state after the Doppler search loop of case 1 over the block in
GalDwell(in) ==
    GalSearch(0, in, [mag |-> 0, delay |-> Acq_delay_samples, doppler |-> Acq_doppler_hz,
                      stamp |-> Acq_samplestamp_samples,
                      stamp_now |-> AddSamples(d_sample_counter, d_fft_size)])

\* case 1, step 5: the state after the dwell with test statistic T and dwell count wc
GalNextState(T, wc) ==
    IF StatGT(T, d_threshold) THEN 2
    ELSE IF wc = d_max_dwells THEN 3
    ELSE 1

\* galileo_pcps_8ms general_work, case 1
gal_ComputeGrid ==
    /\ variant = "gal"
    /\ d_state = 1
    /\ \E in \in Blocks(d_fft_size) :
          LET r == GalDwell(in)
              power == InputPower(in, d_fft_size)
              T == Stat(r.mag, power * d_fft_size * d_fft_size * d_fft_size, 1)
              wc == (d_well_count + 1) % WellCountMod
          IN  /\ d_sample_counter' = AddSamples(d_sample_counter, d_fft_size)
              /\ nitems_read' = consume_each(1)
              /\ d_well_count' = wc
              /\ d_input_power' = power
              /\ d_mag' = r.mag
              /\ Acq_delay_samples' = r.delay
              /\ Acq_doppler_hz' = r.doppler
              /\ Acq_samplestamp_samples' = r.stamp
              /\ d_test_statistics' = T
              /\ d_state' = GalNextState(T, wc)
              /\ h_in' = in
              /\ h_attempt' = [h_attempt EXCEPT
                    !.dwells = Saturated(@ + 1),
                    !.exceeded = IF @ = 0 /\ StatGT(T, d_threshold)
                                 THEN h_attempt.dwells + 1 ELSE @,
                    !.best = IF r.mag > @ THEN r.mag ELSE @]
    /\ UNCHANGED <<trkvars, cfgvars, d_active, d_grid_data, queue>>

\* galileo_pcps_8ms general_work, case 2
gal_PositiveAcq ==
    /\ variant = "gal"
    /\ d_state = 2
    /\ d_active' = FALSE
    /\ d_state' = 0
    /\ \E ninput_items \in 1 .. MaxItems :
          /\ d_sample_counter' = AddSamples(d_sample_counter, d_fft_size * ninput_items)
          /\ nitems_read' = consume_each(ninput_items)
    /\ queue' = Push(queue, 1, FALSE, 0)
    /\ UNCHANGED <<trkvars, cfgvars, d_well_count, d_mag, d_input_power, d_test_statistics,
                   d_grid_data, synchro, h_in, h_attempt>>

\* variation of gal_NegativeAcq: the block stays in state 3 with d_active set and
\* reports nothing
gal_NegativeAcq_NoReturn ==
    /\ variant = "gal"
    /\ d_state = 3
    /\ \E ninput_items \in 1 .. MaxItems :
          /\ d_sample_counter' = AddSamples(d_sample_counter, d_fft_size * ninput_items)
          /\ nitems_read' = consume_each(ninput_items)
    /\ UNCHANGED <<trkvars, cfgvars, d_well_count, d_mag, d_input_power, d_test_statistics,
                   d_grid_data, synchro, h_in, h_attempt, d_active, d_state, queue>>

\* galileo_pcps_8ms general_work, case 3
gal_NegativeAcq ==
    /\ variant = "gal"
    /\ d_state = 3
    /\ d_active' = FALSE
    /\ d_state' = 0
    /\ \E ninput_items \in 1 .. MaxItems :
          /\ d_sample_counter' = AddSamples(d_sample_counter, d_fft_size * ninput_items)
          /\ nitems_read' = consume_each(ninput_items)
    /\ queue' = Push(queue, 2, FALSE, 0)
    /\ UNCHANGED <<trkvars, cfgvars, d_well_count, d_mag, d_input_power, d_test_statistics,
                   d_grid_data, synchro, h_in, h_attempt>>

\* ------------------------------------------------ pcps_acquisition_fine_doppler
\* values an uninitialized buffer or counter may hold
Garbage == {0, 1}

InitFd ==
    /\ variant = "fd"
    /\ InitCommon
    /\ d_well_count \in Garbage
    /\ d_config_doppler_min = -d_doppler_max
    /\ d_sampled_ms \in {1, 2}
    /\ d_fft_size = d_sampled_ms * SamplesPerCode
    /\ d_fft_size * d_max_dwells <= MaxAttemptSamples
    /\ d_num_doppler_bins = NumDopplerPoints(d_doppler_max, d_config_doppler_min, d_doppler_step)
    /\ code = [n \in Indices(d_fft_size) |-> Barker(n, d_fft_size)]
    /\ \E g \in Garbage :
          d_grid_data = [k \in Indices(d_num_doppler_bins) |-> [i \in Indices(d_fft_size) |-> g]]

\* variation of ZeroGrid: reset_grid() leaves the accumulated grid as it is
ZeroGrid_Kept == d_grid_data

\* reset_grid(): the zeroed grid
ZeroGrid == [k \in Indices(d_num_doppler_bins) |-> [i \in Indices(d_fft_size) |-> 0]]

\* compute_and_accumulate_grid(): d_grid_data[k] += |IFFT(FFT(in .* wipeoff[k]) .* fft_codes)|^2
AccumulateGrid(grid, in) ==
    [k \in Indices(d_num_doppler_bins) |->
        LET m == MagnitudeSquared(WipedOff(in, k, d_fft_size), code, d_fft_size)
        IN  [i \in Indices(d_fft_size) |-> grid[k][i] + m[i]]]

\* search_maximum(), one iteration of the loop over the Doppler points
FdBin(i, grid, acc) ==
    LET tmp_intex_t == IndexMax(grid[i], d_fft_size)
    IN  IF grid[i][tmp_intex_t] > acc.magt
        THEN [magt |-> grid[i][tmp_intex_t], index_doppler |-> i, index_time |-> tmp_intex_t]
        ELSE acc

RECURSIVE FdSearch(_, _, _)
\* search_maximum(), the loop over the Doppler points i .. d_num_doppler_points-1
FdSearch(i, grid, acc) ==
    IF i >= d_num_doppler_bins THEN acc ELSE FdSearch(i + 1, grid, FdBin(i, grid, acc))

\* search_maximum(): the peak of the accumulated grid
search_maximum(grid) == FdSearch(0, grid, [magt |-> 0, index_doppler |-> 0, index_time |-> 0])

\* estimate_Doppler(): zero_padding_factor * d_fft_size
FftSizeExtended == 16 * d_fft_size

\* estimate_Doppler(): fftFreqBins[idx]
FftFreqBins(idx) ==
    IF idx < FftSizeExtended \div 2
    THEN ((d_fs_in \div 2) * idx) \div (FftSizeExtended \div 2)
    ELSE -(((d_fs_in \div 2) * (FftSizeExtended - idx)) \div (FftSizeExtended \div 2))

\* variation of EstimateDoppler: a peak exactly 1000 Hz away is accepted
EstimateDoppler_Inclusive(tmp_index_freq, coarse) ==
    IF Abs(FftFreqBins(tmp_index_freq) - coarse) <= 1000
    THEN FftFreqBins(tmp_index_freq)
    ELSE coarse

\* estimate_Doppler(): the Doppler kept when the FFT peak is at tmp_index_freq
EstimateDoppler(tmp_index_freq, coarse) ==
    IF Abs(FftFreqBins(tmp_index_freq) - coarse) < 1000
    THEN FftFreqBins(tmp_index_freq)
    ELSE coarse

\* variation of FdAfterDwell: one more dwell before Decide
FdAfterDwell_Late(wc) == IF wc > d_max_dwells THEN 2 ELSE 1

\* case 1: the state after a dwell that raised d_well_count to wc
FdAfterDwell(wc) == IF wc >= d_max_dwells THEN 2 ELSE 1

\* case 2: the state after the decision on test statistic T
FdDecision(T) == IF StatGT(T, d_threshold) THEN 3 ELSE 5

\* fine_doppler general_work, case 0
fd_StandBy ==
    /\ variant = "fd"
    /\ d_state = 0
    /\ IF d_active
       THEN /\ d_well_count' = 0
            /\ d_grid_data' = ZeroGrid
            /\ d_state' = 1
            /\ h_attempt' = NoAttempt
       ELSE UNCHANGED <<d_well_count, d_grid_data, d_state, h_attempt>>
    /\ d_sample_counter' = AddSamples(d_sample_counter, d_fft_size)
    /\ nitems_read' = consume_each(d_fft_size)
    /\ UNCHANGED <<trkvars, cfgvars, d_active, d_mag, d_input_power, d_test_statistics, synchro,
                   queue, h_in>>

\* fine_doppler general_work, case 1
fd_ComputeGrid ==
    /\ variant = "fd"
    /\ d_state = 1
    /\ \E in \in Blocks(d_fft_size) : d_grid_data' = AccumulateGrid(d_grid_data, in)
    /\ d_well_count' = d_well_count + 1
    /\ d_state' = FdAfterDwell(d_well_count + 1)
    /\ d_sample_counter' = AddSamples(d_sample_counter, d_fft_size)
    /\ nitems_read' = consume_each(d_fft_size)
    /\ h_attempt' = [h_attempt EXCEPT !.dwells = Saturated(@ + 1)]
    /\ UNCHANGED <<trkvars, cfgvars, d_active, d_mag, d_input_power, d_test_statistics, synchro,
                   queue, h_in>>

\* fine_doppler general_work, case 2
fd_Decide ==
    /\ variant = "fd"
    /\ d_state = 2
    /\ \E in \in Blocks(d_fft_size) :
          LET power == InputPower(in, d_fft_size)
              r == search_maximum(d_grid_data)
              T == Stat(r.magt, power * d_fft_size * d_fft_size * d_fft_size, d_well_count)
          IN  /\ d_input_power' = power
              /\ d_test_statistics' = T
              /\ Acq_delay_samples' = r.index_time
              /\ Acq_doppler_hz' = FdDoppler(r.index_doppler)
              /\ Acq_samplestamp_samples' = d_sample_counter
              /\ d_state' = FdDecision(T)
    /\ d_sample_counter' = AddSamples(d_sample_counter, d_fft_size)
    /\ nitems_read' = consume_each(d_fft_size)
    /\ h_attempt' = [h_attempt EXCEPT !.decides = Saturated(@ + 1)]
    /\ UNCHANGED <<trkvars, cfgvars, d_active, d_well_count, d_mag, d_grid_data, queue, h_in>>

\* fine_doppler general_work, case 3
fd_FineDoppler ==
    /\ variant = "fd"
    /\ d_state = 3
    /\ \E tmp_index_freq \in Indices(FftSizeExtended) :
          Acq_doppler_hz' = EstimateDoppler(tmp_index_freq, Acq_doppler_hz)
    /\ d_state' = 4
    /\ d_sample_counter' = AddSamples(d_sample_counter, d_fft_size)
    /\ nitems_read' = consume_each(d_fft_size)
    /\ UNCHANGED <<trkvars, cfgvars, d_active, d_well_count, d_mag, d_input_power, d_test_statistics,
                   d_grid_data, Acq_delay_samples, Acq_samplestamp_samples, queue, h_in,
                   h_attempt>>

\* fine_doppler general_work, case 4
fd_PositiveAcq ==
    /\ variant = "fd"
    /\ d_state = 4
    /\ d_active' = FALSE
    /\ queue' = Push(queue, 1, FALSE, d_state)
    /\ d_state' = 0
    /\ d_sample_counter' = AddSamples(d_sample_counter, d_fft_size)
    /\ nitems_read' = consume_each(d_fft_size)
    /\ UNCHANGED <<trkvars, cfgvars, d_well_count, d_mag, d_input_power, d_test_statistics,
                   d_grid_data, synchro, h_in, h_attempt>>

\* fine_doppler general_work, case 5
fd_NegativeAcq ==
    /\ variant = "fd"
    /\ d_state = 5
    /\ d_active' = FALSE
    /\ queue' = Push(queue, 2, FALSE, d_state)
    /\ d_state' = 0
    /\ d_sample_counter' = AddSamples(d_sample_counter, d_fft_size)
    /\ nitems_read' = consume_each(d_fft_size)
    /\ UNCHANGED <<trkvars, cfgvars, d_well_count, d_mag, d_input_power, d_test_statistics,
                   d_grid_data, synchro, h_in, h_attempt>>

\* ---------------------------------------------------------- specification
Init == InitGal \/ InitFd

Next ==
    \/ set_active
    \/ gal_StandBy
    \/ gal_ComputeGrid
    \/ gal_PositiveAcq
    \/ gal_NegativeAcq
    \/ fd_StandBy
    \/ fd_ComputeGrid
    \/ fd_Decide
    \/ fd_FineDoppler
    \/ fd_PositiveAcq
    \/ fd_NegativeAcq

Spec == Init /\ [][Next]_vars

\* one call of general_work by the scheduler, in whichever state the block is
general_work ==
    \/ gal_StandBy
    \/ gal_ComputeGrid
    \/ gal_PositiveAcq
    \/ gal_NegativeAcq
    \/ fd_StandBy
    \/ fd_ComputeGrid
    \/ fd_Decide
    \/ fd_FineDoppler
    \/ fd_PositiveAcq
    \/ fd_NegativeAcq

\* the scheduler keeps invoking general_work while input is available
FairSpec == Spec /\ WF_vars(general_work)


\* ------------------------------------------------- control thread (channel)
\* stop_tracking() is the last command of the channel: no call and no telemetry
\* message follows it
\* set_gnss_synchro(p), the part before the lock: the pointer is stored
trk_set_gnss_synchro ==
    /\ variant = "trk"
    /\ ~d_stop_tracking
    /\ ctl = "idle"
    /\ \E PRN \in {0, 1} :
          /\ d_acquisition_gnss_synchro' = PRN
          /\ ctl' = IF PRN > 0 THEN "set_gnss_synchro" ELSE "idle"
    /\ UNCHANGED dopvars
    /\ UNCHANGED <<acqvars, gwvars, lockvars, trackvars, acqcopy, d_stop_tracking,
                   d_worker_is_done, fpgavars, events, h_trk>>

\* set_gnss_synchro(p) with a valid PRN, the part under d_setlock
trk_set_gnss_synchro_locked ==
    /\ variant = "trk"
    /\ ctl = "set_gnss_synchro"
    /\ d_setlock = "free"
    /\ ctl' = "idle"
    /\ d_sample_counter' = 0
    /\ d_sample_counter_next' = 0
    /\ d_carrier_lock_fail_counter' = 0
    /\ d_code_lock_fail_counter' = 0
    /\ d_cn0_estimation_counter' = 0
    /\ d_carrier_lock_test' = 100
    /\ d_CN0_SNV_dB_Hz' = 0
    /\ d_pull_in_transitory' = TRUE
    /\ d_Prompt_circular_buffer' = <<>>
    /\ d_local_code_shift_chips' = "wide"
    /\ d_current_fpga_integration_period' = 1
    /\ h_trk' = [h_trk EXCEPT !.assigned = TRUE, !.evals = 0, !.fault = FALSE]
    /\ UNCHANGED dopvars
    /\ UNCHANGED <<acqconst, synchro, d_state, gwvars, d_setlock, d_Prompt_buffer,
                   d_Flag_PLL_180_deg_phase_locked, d_extend_correlation_symbols_count,
                   d_current_data_symbol, accuvars, d_trk_parameters, d_dump, d_dump_file, acqcopy,
                   d_stop_tracking, d_worker_is_done, d_acquisition_gnss_synchro,
                   fpgavars, events>>

\* start_tracking(), up to the lock on d_mutex: the result that the acquisition has
\* just written into the Gnss_Synchro object of the channel is copied
trk_start_tracking ==
    /\ variant = "trk"
    /\ ~d_stop_tracking
    /\ ctl = "idle"
    /\ d_acquisition_gnss_synchro # NullPtr
    /\ ctl' = "start_tracking"
    /\ Acq_samplestamp_samples' \in AcqStamps
    /\ Acq_delay_samples' \in AcqDelays
    /\ d_acq_code_phase_samples' = Acq_delay_samples'
    /\ d_acq_sample_stamp' = Acq_samplestamp_samples'
    /\ d_corrected_doppler' = FALSE
    /\ h_corrections' = 0
    /\ UNCHANGED <<acqconst, Acq_doppler_hz, d_state, d_sample_counter, gwvars, lockvars,
                   trackvars, d_dll_filt_history, d_acquisition_gnss_synchro, d_stop_tracking,
                   d_worker_is_done, fpgavars, events, h_trk>>

\* start_tracking(), under d_mutex: d_worker_is_done = true; notify_one()
trk_start_tracking_notify ==
    /\ variant = "trk"
    /\ ctl = "start_tracking"
    /\ ctl' = "idle"
    /\ d_worker_is_done' = TRUE
    /\ h_trk' = [h_trk EXCEPT !.signalled = @ \/ h_trk.assigned]
    /\ UNCHANGED dopvars
    /\ UNCHANGED <<acqvars, gwvars, lockvars, trackvars, acqcopy,
                   d_acquisition_gnss_synchro, d_stop_tracking, fpgavars, events>>

\* stop_tracking()
trk_stop_tracking ==
    /\ variant = "trk"
    /\ ~d_stop_tracking
    /\ ctl = "idle"
    /\ d_stop_tracking' = TRUE
    /\ channel_locked' = FALSE
    /\ UNCHANGED dopvars
    /\ UNCHANGED <<acqvars, gwvars, lockvars, trackvars, acqcopy, ctlvars,
                   d_worker_is_done, initial_sample, events, h_trk>>

\* set_channel(channel, device_io_name), called when the channel is built, before its
\* first command: with d_dump set the dump file is opened, and a failure to open it
\* is an exception that set_channel catches
trk_set_channel ==
    /\ variant = "trk"
    /\ ~d_stop_tracking
    /\ ctl = "idle"
    /\ d_acquisition_gnss_synchro = NullPtr
    /\ d_setlock = "free"
    /\ IF d_dump /\ ~d_dump_file.is_open
       THEN \E opened \in BOOLEAN :
               d_dump_file' = [d_dump_file EXCEPT !.exceptions = TRUE,
                                                  !.is_open = opened,
                                                  !.failbit = ~opened]
       ELSE d_dump_file' = d_dump_file
    /\ UNCHANGED dopvars
    /\ UNCHANGED <<acqvars, gwvars, lockvars, d_carrier_lock_fail_counter,
                   d_code_lock_fail_counter, d_cn0_estimation_counter, d_CN0_SNV_dB_Hz,
                   d_carrier_lock_test, d_pull_in_transitory, d_Prompt_buffer,
                   d_Prompt_circular_buffer, d_Flag_PLL_180_deg_phase_locked,
                   d_sample_counter_next, d_extend_correlation_symbols_count,
                   d_current_data_symbol, accuvars, d_trk_parameters, d_dump,
                   d_current_fpga_integration_period, d_local_code_shift_chips, acqcopy,
                   ctlvars, d_stop_tracking, d_worker_is_done, fpgavars, events, h_trk>>

\* reset()
trk_reset ==
    /\ variant = "trk"
    /\ ~d_stop_tracking
    /\ ctl = "idle"
    /\ d_setlock = "free"
    /\ channel_locked' = FALSE
    /\ UNCHANGED dopvars
    /\ UNCHANGED <<acqvars, gwvars, lockvars, trackvars, acqcopy, ctlvars,
                   d_stop_tracking, d_worker_is_done, initial_sample, events, h_trk>>

\* msg_handler_telemetry_to_trk(msg) for an integer message tlm_event
trk_msg_handler_telemetry_to_trk ==
    /\ variant = "trk"
    /\ ~d_stop_tracking
    /\ d_setlock = "free"
    /\ \E tlm_event \in {1, 2} :
          IF tlm_event = 1
          THEN /\ d_carrier_lock_fail_counter' = TelemetryFault
               /\ h_trk' = [h_trk EXCEPT !.fault = (d_state \in 2 .. 6)]
          ELSE UNCHANGED <<d_carrier_lock_fail_counter, h_trk>>
    /\ UNCHANGED dopvars
    /\ UNCHANGED <<acqvars, gwvars, lockvars, d_code_lock_fail_counter,
                   d_cn0_estimation_counter, d_CN0_SNV_dB_Hz, d_carrier_lock_test,
                   d_pull_in_transitory, d_Prompt_buffer, d_Prompt_circular_buffer,
                   d_Flag_PLL_180_deg_phase_locked, d_sample_counter_next,
                   d_extend_correlation_symbols_count, d_current_data_symbol, accuvars,
                   d_trk_parameters, d_dump, d_dump_file,
                   d_current_fpga_integration_period, d_local_code_shift_chips, acqcopy,
                   ctlvars, d_stop_tracking, d_worker_is_done, fpgavars, events>>

\* the channel takes a message from the events port
trk_channel_events ==
    /\ variant = "trk"
    /\ events > 0
    /\ events' = events - 1
    /\ UNCHANGED dopvars
    /\ UNCHANGED <<acqvars, gwvars, lockvars, trackvars, acqcopy, ctlvars,
                   d_stop_tracking, d_worker_is_done, fpgavars, h_trk>>

\* ------------------------------------------------------------ general_work
\* general_work is called: d_setlock is taken, the locals are initialized
trk_Enter ==
    /\ variant = "trk"
    /\ pc = "idle"
    /\ d_setlock = "free"
    /\ d_setlock' = "general_work"
    /\ pc' = "loop"
    /\ Flag_valid_symbol_output' = FALSE
    /\ loss_of_lock' = FALSE
    /\ Prompt_I' = 0
    /\ out' = NoRecord
    /\ returned' = NoReturn
    /\ h_trk' = [h_trk EXCEPT !.after_stop = d_stop_tracking]
    /\ UNCHANGED dopvars
    /\ UNCHANGED <<acqvars, trackvars, acqcopy, ctlvars, d_stop_tracking,
                   d_worker_is_done, fpgavars, events>>

\* variation of LoopCondition: d_stop_tracking is not looked at
LoopCondition_IgnoreStop == ~Flag_valid_symbol_output

\* variation of LoopCondition: the loop also ends at a loss of lock
LoopCondition_UntilLoss ==
    ~Flag_valid_symbol_output /\ ~d_stop_tracking /\ ~loss_of_lock

\* while ((!current_synchro_data.Flag_valid_symbol_output) && (!d_stop_tracking))
LoopCondition == ~Flag_valid_symbol_output /\ ~d_stop_tracking

\* variation of OutputRecord: the record carries the flag of the last cycle
OutputRecord_CycleFlag ==
    [written |-> TRUE, Flag_valid_symbol_output |-> Flag_valid_symbol_output,
     Tracking_sample_counter |-> d_sample_counter_next,
     Flag_PLL_180_deg_phase_locked |-> d_Flag_PLL_180_deg_phase_locked,
     Prompt_I |-> Prompt_I]

\* the fields of current_synchro_data that general_work sets before it is moved
\* into *out[0]
OutputRecord ==
    [written |-> TRUE, Flag_valid_symbol_output |-> ~loss_of_lock,
     Tracking_sample_counter |-> d_sample_counter_next,
     Flag_PLL_180_deg_phase_locked |-> d_Flag_PLL_180_deg_phase_locked,
     Prompt_I |-> Prompt_I]

\* the loop condition fails: the record is written if there is one, general_work
\* returns and releases d_setlock
trk_Return ==
    /\ variant = "trk"
    /\ pc = "loop"
    /\ ~LoopCondition
    /\ pc' = "idle"
    /\ d_setlock' = "free"
    /\ IF Flag_valid_symbol_output \/ loss_of_lock
       THEN /\ out' = OutputRecord
            /\ returned' = 1
            /\ h_trk' = [h_trk EXCEPT !.last_record = d_sample_counter_next]
       ELSE out' = out /\ returned' = 0 /\ h_trk' = h_trk
    /\ UNCHANGED dopvars
    /\ UNCHANGED <<acqvars, Flag_valid_symbol_output, loss_of_lock, Prompt_I, trackvars, acqcopy,
                   ctlvars, d_stop_tracking, d_worker_is_done, fpgavars, events>>

\* the top of the loop: the pull-in transitory test
trk_Loop ==
    /\ variant = "trk"
    /\ pc = "loop"
    /\ LoopCondition
    /\ pc' = "case"
    /\ h_trk' = [h_trk EXCEPT !.counter_value = 0]
    /\ IF PullInTransitoryOver
       THEN /\ d_pull_in_transitory' = FALSE
            /\ d_carrier_lock_fail_counter' = 0
            /\ d_code_lock_fail_counter' = 0
       ELSE UNCHANGED <<d_pull_in_transitory, d_carrier_lock_fail_counter,
                        d_code_lock_fail_counter>>
    /\ UNCHANGED dopvars
    /\ UNCHANGED <<acqvars, Flag_valid_symbol_output, loss_of_lock, Prompt_I, out, returned,
                   lockvars, d_cn0_estimation_counter, d_CN0_SNV_dB_Hz,
                   d_carrier_lock_test, d_Prompt_buffer, d_Prompt_circular_buffer,
                   d_Flag_PLL_180_deg_phase_locked, d_sample_counter_next,
                   d_extend_correlation_symbols_count, d_current_data_symbol, accuvars,
                   d_trk_parameters, d_dump, d_dump_file,
                   d_current_fpga_integration_period, d_local_code_shift_chips, acqcopy,
                   ctlvars, d_stop_tracking, d_worker_is_done, fpgavars, events>>

\* case 1, up to the wait: d_worker_is_done = false, d_setlock released
trk_PullIn ==
    /\ variant = "trk"
    /\ pc = "case"
    /\ d_state = 1
    /\ pc' = "wait"
    /\ d_worker_is_done' = FALSE
    /\ d_setlock' = "free"
    /\ UNCHANGED dopvars
    /\ UNCHANGED <<acqvars, Flag_valid_symbol_output, loss_of_lock, Prompt_I, out, returned,
                   trackvars, acqcopy, ctlvars, d_stop_tracking, fpgavars, events, h_trk>>

\* the wait of case 1 without its loop: any return of wait() ends it
WaitOver_Spurious == TRUE

\* while (!d_worker_is_done) { d_m_condition.wait(lock); } has ended
WaitOver == d_worker_is_done

\* case 1, after the wait: d_setlock retaken, signal alignment, d_state = 2
trk_PullInAligned ==
    /\ variant = "trk"
    /\ pc = "wait"
    /\ WaitOver
    /\ d_setlock = "free"
    /\ \E counter_value \in FpgaCounterValues :
          LET absolute_samples_offset == AbsoluteSamplesOffset(counter_value)
          IN  /\ absolute_samples_offset <= MaxTrkSamples
              /\ initial_sample' = absolute_samples_offset
              /\ d_sample_counter' = absolute_samples_offset
              /\ d_sample_counter_next' = absolute_samples_offset
              /\ d_acq_code_phase_samples' = absolute_samples_offset
              /\ h_trk' = [h_trk EXCEPT !.assigned = FALSE, !.signalled = FALSE,
                                        !.counter_value = counter_value,
                                        !.last_record = -1]
    /\ channel_locked' = TRUE
    /\ d_setlock' = "general_work"
    /\ d_state' = 2
    /\ pc' = "loop"
    /\ UNCHANGED dopvars
    /\ UNCHANGED <<acqconst, synchro, Flag_valid_symbol_output, loss_of_lock, Prompt_I, out,
                   returned, d_carrier_lock_fail_counter, d_code_lock_fail_counter,
                   d_cn0_estimation_counter, d_CN0_SNV_dB_Hz, d_carrier_lock_test,
                   d_pull_in_transitory, d_Prompt_buffer, d_Prompt_circular_buffer,
                   d_Flag_PLL_180_deg_phase_locked, d_extend_correlation_symbols_count,
                   d_current_data_symbol, accuvars, d_trk_parameters, d_dump, d_dump_file,
                   d_current_fpga_integration_period, d_local_code_shift_chips,
                   d_acq_sample_stamp, ctlvars, d_stop_tracking, d_worker_is_done, events>>

\* the start of every cycle of states 2-6: the block starts where the last one ended
AdvanceBlock ==
    /\ d_sample_counter_next + vector_length <= MaxTrkSamples
    /\ d_sample_counter' = d_sample_counter_next
    /\ d_sample_counter_next' = d_sample_counter_next + vector_length

\* the effects of one call of cn0_and_tracking_lock_status with result r
ApplyLockStatus(r) ==
    /\ r.event => events < MaxEvents
    /\ d_Prompt_buffer' = r.buffer
    /\ d_cn0_estimation_counter' = r.counter
    /\ d_CN0_SNV_dB_Hz' = r.cn0
    /\ d_carrier_lock_test' = r.test
    /\ d_carrier_lock_fail_counter' = r.carrier
    /\ d_code_lock_fail_counter' = r.codec
    /\ events' = IF r.event THEN events + 1 ELSE events
    /\ channel_locked' = IF r.event THEN FALSE ELSE channel_locked
    /\ h_trk' = [h_trk EXCEPT !.evals = TrkSaturated(@ + 1),
                              !.fault = IF r.event THEN FALSE ELSE @]

\* d_trk_parameters.track_pilot: false for GPS L1 C/A, and the Galileo E1
\* configuration tracks the data component
track_pilot == FALSE

\* clear_tracking_vars(): d_P_data_accu is zeroed when the pilot is tracked
ClearedDataAccu(accu) == IF track_pilot THEN 0 ELSE accu

\* the accumulators are kept as the number of blocks whose correlator outputs they
\* sum, 0 for gr_complex(0.0, 0.0); the sign that a secondary code gives to a block
\* is left out
\* variation of SavedDataAccu: the two branches exchanged, a block replaces the sum
\* when the bit has several symbols
SavedDataAccu_Single == IF d_symbols_per_bit > 1 THEN 1 ELSE d_P_data_accu + 1

\* save_correlation_results(): d_P_data_accu after one more block
SavedDataAccu == IF d_symbols_per_bit > 1 THEN d_P_data_accu + 1 ELSE 1

\* save_correlation_results(): d_E_accu, d_P_accu and d_L_accu after one more block
\* (d_VE_accu and d_VL_accu with d_veml)
SavedAccu == d_P_accu + 1

\* save_correlation_results(): the secondary code index
NextSymbol ==
    IF d_secondary THEN (d_current_symbol + 1) % d_secondary_code_length
    ELSE d_current_symbol

\* loss of lock in states 2, 4 and 6: clear_tracking_vars(), d_state = 1
LossOfLockDetected ==
    /\ d_Prompt_circular_buffer' = <<>>
    /\ d_current_data_symbol' = 0
    /\ d_current_symbol' = 0
    /\ d_state' = 1
    /\ loss_of_lock' = TRUE
    /\ Flag_valid_symbol_output' = FALSE
    /\ Prompt_I' = 0
    /\ UNCHANGED dopvars
    /\ UNCHANGED <<d_Flag_PLL_180_deg_phase_locked, d_extend_correlation_symbols_count>>

\* variation of NextDataSymbol: the counter runs over the symbols of the coherent
\* integration
NextDataSymbol_PerRound ==
    (d_current_data_symbol + d_current_fpga_integration_period)
        % d_trk_parameters.extend_correlation_symbols

\* save_correlation_results(): the data symbol counter
NextDataSymbol ==
    IF d_symbols_per_bit > 1
    THEN IF d_data_secondary_code_length > 0
         THEN (d_current_data_symbol + d_current_fpga_integration_period)
                  % d_data_secondary_code_length
         ELSE (d_current_data_symbol + d_current_fpga_integration_period)
                  % d_symbols_per_bit
    ELSE d_current_data_symbol

\* log_data(): with d_dump set a record is written to d_dump_file; on a stream that
\* is not open the write fails (an exception that log_data catches, when the
\* exceptions are enabled)
log_data(f) ==
    IF ~d_dump THEN f
    ELSE IF f.is_open /\ ~f.failbit
    THEN [f EXCEPT !.records = 1, !.attempted = TRUE]
    ELSE [f EXCEPT !.failbit = TRUE, !.attempted = TRUE]

\* run_dll_pll(): the correction is looked at in this cycle
CorrectionArmed ==
    /\ d_trk_parameters.enable_doppler_correction
    /\ ~d_pull_in_transitory
    /\ ~d_corrected_doppler

\* variation of CodeErrorTooLarge: an average of 1 chip/s counts
CodeErrorTooLarge_Inclusive(history) ==
    Abs(SumTo([i \in Indices(Len(history)) |-> history[i + 1]], Len(history)))
        >= DllHistoryCapacity

\* run_dll_pll(): std::fabs(avg_code_error_chips_s) > 1.0, the average taken over
\* the capacity of the history
CodeErrorTooLarge(history) ==
    Abs(SumTo([i \in Indices(Len(history)) |-> history[i + 1]], Len(history)))
        > DllHistoryCapacity

\* run_dll_pll(): the carrier Doppler correction, with the filtered code error err
\* of this cycle
DopplerCorrection(err) ==
    IF CorrectionArmed
    THEN LET pushed == Append(d_dll_filt_history, err)
         IN  IF Len(pushed) = DllHistoryCapacity
             THEN /\ d_dll_filt_history' = <<>>
                  /\ d_corrected_doppler' = CodeErrorTooLarge(pushed)
                  /\ h_corrections' = IF CodeErrorTooLarge(pushed)
                                      THEN h_corrections + 1 ELSE h_corrections
             ELSE /\ d_dll_filt_history' = pushed
                  /\ UNCHANGED <<d_corrected_doppler, h_corrections>>
    ELSE UNCHANGED dopvars

\* the filtered code errors that matter in this cycle
CodeErrorsNow == IF CorrectionArmed THEN CodeErrors ELSE {0}

\* variation of ResetExtendedCorrelator: the data accumulator and the data symbol
\* index are left as they are
ResetExtendedCorrelator_KeepData ==
    /\ d_P_accu' = 0
    /\ d_Prompt_circular_buffer' = <<>>
    /\ d_current_symbol' = 0
    /\ UNCHANGED dopvars
    /\ UNCHANGED <<d_P_data_accu, d_current_data_symbol>>

\* case 2, next_state: "reset extended correlator"
ResetExtendedCorrelator ==
    /\ d_P_accu' = 0
    /\ d_P_data_accu' = 0
    /\ d_Prompt_circular_buffer' = <<>>
    /\ d_current_symbol' = 0
    /\ d_current_data_symbol' = 0

\* case 2: wide tracking and symbol synchronization
trk_WideTrack ==
    /\ variant = "trk"
    /\ pc = "case"
    /\ d_state = 2
    /\ pc' = "loop"
    /\ AdvanceBlock
    /\ \E P \in PromptValues, cn0 \in CN0Levels, test \in LockTestLevels,
          err \in CodeErrorsNow :
          LET carrier == IF bit_synchronization_time_limit_s
                               < ElapsedSeconds(d_sample_counter_next)
                         THEN SyncTimeout ELSE d_carrier_lock_fail_counter
              r == cn0_and_tracking_lock_status(carrier, P, cn0, test)
              searching == d_secondary \/ d_symbols_per_bit > 1
              pushed == IF searching THEN PushBack(d_Prompt_circular_buffer, P)
                        ELSE d_Prompt_circular_buffer
              s == IF ~searching
                   THEN [accepted |-> TRUE, flag |-> d_Flag_PLL_180_deg_phase_locked]
                   ELSE IF Len(pushed) = d_secondary_code_length
                   THEN acquire_secondary(pushed, d_Flag_PLL_180_deg_phase_locked)
                   ELSE [accepted |-> FALSE, flag |-> d_Flag_PLL_180_deg_phase_locked]
          IN  /\ ApplyLockStatus(r)
              /\ IF ~r.keepLock
                 THEN /\ LossOfLockDetected
                      /\ d_P_accu' = 1
                      /\ d_P_data_accu' = ClearedDataAccu(d_P_data_accu)
                      /\ UNCHANGED dopvars
                      /\ UNCHANGED <<d_dump_file, d_current_fpga_integration_period,
                                     d_local_code_shift_chips>>
                 ELSE IF d_pull_in_transitory
                 THEN /\ d_dump_file' = log_data(d_dump_file)
                      /\ DopplerCorrection(err)
                      /\ d_P_accu' = 1
                      /\ UNCHANGED <<d_P_data_accu, d_current_symbol, Prompt_I>>
                      /\ UNCHANGED <<d_Prompt_circular_buffer, d_current_data_symbol,
                                     d_state, loss_of_lock, Flag_valid_symbol_output,
                                     d_Flag_PLL_180_deg_phase_locked,
                                     d_extend_correlation_symbols_count,
                                     d_current_fpga_integration_period,
                                     d_local_code_shift_chips>>
                 ELSE /\ d_dump_file' = log_data(d_dump_file)
                      /\ DopplerCorrection(err)
                      /\ d_Flag_PLL_180_deg_phase_locked' = s.flag
                      /\ UNCHANGED <<loss_of_lock, Flag_valid_symbol_output, Prompt_I>>
                      /\ IF s.accepted
                         THEN /\ ResetExtendedCorrelator
                              /\ d_extend_correlation_symbols_count' =
                                    IF d_enable_extended_integration THEN 0
                                    ELSE d_extend_correlation_symbols_count
                              /\ d_current_fpga_integration_period' =
                                    IF d_enable_extended_integration
                                       /\ d_trk_parameters.extended_correlation_in_fpga
                                    THEN d_trk_parameters.fpga_integration_period
                                    ELSE d_current_fpga_integration_period
                              /\ d_local_code_shift_chips' = TapsAfterSync
                              /\ d_state' = StateAfterSync
                         ELSE /\ d_Prompt_circular_buffer' = pushed
                              /\ d_P_accu' = 1
                              /\ UNCHANGED <<d_P_data_accu, d_current_symbol>>
                              /\ UNCHANGED <<d_current_data_symbol, d_state,
                                             d_extend_correlation_symbols_count,
                                             d_current_fpga_integration_period,
                                             d_local_code_shift_chips>>
    /\ UNCHANGED <<acqconst, synchro, out, returned, lockvars, d_pull_in_transitory,
                   d_trk_parameters, d_dump, acqcopy, ctlvars, d_stop_tracking,
                   d_worker_is_done, initial_sample>>

\* cases 3 and 5: coherent integration; count_to is the number of cycles before the
\* narrow tracking cycle, narrow its state
CoherentExtend(count_to, narrow) ==
    /\ pc' = "loop"
    /\ AdvanceBlock
    /\ d_current_data_symbol' = NextDataSymbol
    /\ d_current_symbol' = NextSymbol
    /\ d_P_accu' = SavedAccu
    /\ Flag_valid_symbol_output' = (NextDataSymbol = 0)
    /\ IF NextDataSymbol = 0
       THEN Prompt_I' = SavedDataAccu /\ d_P_data_accu' = 0
       ELSE Prompt_I' = Prompt_I /\ d_P_data_accu' = SavedDataAccu
    /\ d_dump_file' = IF NextDataSymbol = 0 THEN log_data(d_dump_file) ELSE d_dump_file
    /\ IF d_extend_correlation_symbols_count + 1 = count_to
       THEN d_extend_correlation_symbols_count' = 0 /\ d_state' = narrow
       ELSE /\ d_extend_correlation_symbols_count' = d_extend_correlation_symbols_count + 1
            /\ d_state' = d_state
    /\ UNCHANGED dopvars
    /\ UNCHANGED <<acqconst, synchro, loss_of_lock, out, returned, lockvars,
                   d_carrier_lock_fail_counter, d_code_lock_fail_counter,
                   d_cn0_estimation_counter, d_CN0_SNV_dB_Hz, d_carrier_lock_test,
                   d_pull_in_transitory, d_Prompt_buffer, d_Prompt_circular_buffer,
                   d_Flag_PLL_180_deg_phase_locked, d_trk_parameters, d_dump,
                   d_current_fpga_integration_period, d_local_code_shift_chips, acqcopy,
                   ctlvars, d_stop_tracking, d_worker_is_done, fpgavars, events, h_trk>>

\* variation of ExtendCycles: one cycle more
ExtendCycles_Full == d_trk_parameters.extend_correlation_symbols

\* case 3: the value of d_extend_correlation_symbols_count that ends the integration
ExtendCycles == d_trk_parameters.extend_correlation_symbols - 1

\* case 3: coherent integration (correlation time extension)
trk_CoherentExtend ==
    /\ variant = "trk"
    /\ pc = "case"
    /\ d_state = 3
    /\ CoherentExtend(ExtendCycles, 4)

\* case 5: coherent integration in the FPGA
trk_CoherentExtendFpga ==
    /\ variant = "trk"
    /\ pc = "case"
    /\ d_state = 5
    /\ CoherentExtend(d_trk_parameters.extend_fpga_integration_periods - 1, 6)

\* cases 4 and 6: narrow tracking; extend is the state of the next coherent
\* integration, or the state itself when there is none
NarrowTrack(extend) ==
    /\ pc' = "loop"
    /\ AdvanceBlock
    /\ \E P \in PromptValues, cn0 \in CN0Levels, test \in LockTestLevels,
          err \in CodeErrorsNow :
          LET r == cn0_and_tracking_lock_status(d_carrier_lock_fail_counter, P, cn0, test)
          IN  /\ ApplyLockStatus(r)
              /\ IF ~r.keepLock
                 THEN /\ LossOfLockDetected
                      /\ d_dump_file' = d_dump_file
                      /\ UNCHANGED dopvars
                      /\ d_P_accu' = SavedAccu
                      /\ d_P_data_accu' =
                            ClearedDataAccu(SavedDataAccu)
                 ELSE /\ DopplerCorrection(err)
                      /\ d_current_data_symbol' = NextDataSymbol
                      /\ d_current_symbol' = NextSymbol
                      /\ d_P_accu' = 0
                      /\ IF NextDataSymbol = 0
                         THEN /\ Prompt_I' = SavedDataAccu
                              /\ d_P_data_accu' = 0
                         ELSE /\ Prompt_I' = Prompt_I
                              /\ d_P_data_accu' = SavedDataAccu
                      /\ Flag_valid_symbol_output' = (NextDataSymbol = 0)
                      /\ d_dump_file' = IF NextDataSymbol = 0 THEN log_data(d_dump_file)
                                        ELSE d_dump_file
                      /\ d_state' = extend
                      /\ d_extend_correlation_symbols_count' =
                            IF d_state = 6 THEN 0 ELSE d_extend_correlation_symbols_count
                      /\ UNCHANGED <<loss_of_lock, d_Prompt_circular_buffer,
                                     d_Flag_PLL_180_deg_phase_locked>>
    /\ UNCHANGED <<acqconst, synchro, out, returned, lockvars, d_pull_in_transitory,
                   d_trk_parameters, d_dump, d_current_fpga_integration_period,
                   d_local_code_shift_chips, acqcopy, ctlvars, d_stop_tracking,
                   d_worker_is_done, initial_sample>>

\* case 4: narrow tracking
trk_NarrowTrack ==
    /\ variant = "trk"
    /\ pc = "case"
    /\ d_state = 4
    /\ NarrowTrack(IF d_enable_extended_integration THEN 3 ELSE 4)

\* case 6: narrow tracking in the FPGA
trk_NarrowTrackFpga ==
    /\ variant = "trk"
    /\ pc = "case"
    /\ d_state = 6
    /\ NarrowTrack(IF d_trk_parameters.extend_fpga_integration_periods > 1 THEN 5 ELSE 6)

\* ------------------------------------------------ tracking specification
\* the acquisition variables, which the tracking block does not have
AcqDormant ==
    /\ d_max_dwells = 0
    /\ d_threshold = <<1, 1>>
    /\ d_doppler_max = 0
    /\ d_doppler_step = 1
    /\ d_config_doppler_min = 0
    /\ d_sampled_ms = 1
    /\ d_fft_size = 0
    /\ d_num_doppler_bins = 0
    /\ code = <<>>
    /\ d_active = FALSE
    /\ d_well_count = 0
    /\ d_mag = 0
    /\ d_input_power = 0
    /\ d_test_statistics = StatZero
    /\ d_grid_data = <<>>
    /\ queue = <<>>
    /\ h_in = <<>>
    /\ h_attempt = NoAttempt
    /\ nitems_read = 0

\* constructor: d_dump(d_trk_parameters.dump), cleared when the directory of the dump
\* files cannot be created
DumpAfterConstruction(dump) == IF dump THEN {TRUE, FALSE} ELSE {FALSE}

\* the tracking block after construction, d_state(1)
TrkInit ==
    /\ variant = "trk"
    /\ AcqDormant
    /\ TrkConstructed
    /\ d_trk_parameters \in TrkConfigs
    /\ d_dump \in DumpAfterConstruction(d_trk_parameters.dump)
    /\ d_state = 1
    /\ d_sample_counter = 0
    /\ Acq_delay_samples = 0
    /\ Acq_doppler_hz = 0
    /\ Acq_samplestamp_samples = 0

\* one step of the general_work thread
trk_general_work ==
    \/ trk_Enter
    \/ trk_Loop
    \/ trk_Return
    \/ trk_PullIn
    \/ trk_PullInAligned
    \/ trk_WideTrack
    \/ trk_CoherentExtend
    \/ trk_NarrowTrack
    \/ trk_CoherentExtendFpga
    \/ trk_NarrowTrackFpga

TrkNext ==
    \/ trk_set_gnss_synchro
    \/ trk_set_gnss_synchro_locked
    \/ trk_start_tracking
    \/ trk_start_tracking_notify
    \/ trk_stop_tracking
    \/ trk_reset
    \/ trk_msg_handler_telemetry_to_trk
    \/ trk_channel_events
    \/ trk_Enter
    \/ trk_Loop
    \/ trk_Return
    \/ trk_PullIn
    \/ trk_PullInAligned
    \/ trk_WideTrack
    \/ trk_CoherentExtend
    \/ trk_NarrowTrack
    \/ trk_CoherentExtendFpga
    \/ trk_NarrowTrackFpga

TrkSpec == TrkInit /\ [][TrkNext]_vars

\* the scheduler keeps running general_work, and a control call that has begun runs
\* to its end
TrkFairSpec ==
    /\ TrkSpec
    /\ WF_vars(trk_general_work)
    /\ WF_vars(trk_start_tracking_notify)
    /\ WF_vars(trk_set_gnss_synchro_locked)

\* ------------------------------------- the tracking block behind its channel
\* The channel builds the block and calls set_channel; it assigns a satellite while
\* general_work waits in the PullIn case, starts the tracking once after each
\* assignment, and may stop the tracking at any time.
WaitingForChannel == pc = "wait" /\ ctl = "idle"

\* set_gnss_synchro(p), called while the block waits for the acquisition
chn_set_gnss_synchro ==
    /\ WaitingForChannel
    /\ ~h_trk.assigned
    /\ trk_set_gnss_synchro

\* start_tracking(), called once after the assignment
chn_start_tracking ==
    /\ WaitingForChannel
    /\ h_trk.assigned
    /\ ~h_trk.signalled
    /\ trk_start_tracking

ChnInit ==
    /\ variant = "trk"
    /\ AcqDormant
    /\ TrkConstructed
    /\ d_trk_parameters \in TrkConfigs \cup OtherConfigs
    /\ d_dump \in DumpAfterConstruction(d_trk_parameters.dump)
    /\ d_state = 1
    /\ d_sample_counter = 0
    /\ Acq_delay_samples = 0
    /\ Acq_doppler_hz = 0
    /\ Acq_samplestamp_samples = 0

ChnNext ==
    \/ trk_set_channel
    \/ chn_set_gnss_synchro
    \/ trk_set_gnss_synchro_locked
    \/ chn_start_tracking
    \/ trk_start_tracking_notify
    \/ trk_stop_tracking
    \/ trk_Enter
    \/ trk_Loop
    \/ trk_Return
    \/ trk_PullIn
    \/ trk_PullInAligned
    \/ trk_WideTrack
    \/ trk_CoherentExtend
    \/ trk_NarrowTrack
    \/ trk_CoherentExtendFpga
    \/ trk_NarrowTrackFpga

ChnSpec == ChnInit /\ [][ChnNext]_vars

\* ============================================================= properties
PositiveState == IF variant = "gal" THEN 2 ELSE 4

NegativeState == IF variant = "gal" THEN 3 ELSE 5

\* a general_work call that brings the block back to StandBy
ReturnsToStandBy == d_state # 0 /\ d_state' = 0

\* the queue grows by exactly one entry in this step
PushedOne == Len(queue') = Len(queue) + 1 /\ SubSeq(queue', 1, Len(queue)) = queue

\* C1 (as stated): an attempt pushes exactly one message, 1 from PositiveAcq or 2 from
\* NegativeAcq, in the call that returns to StandBy and in no other call; when the
\* message is pushed d_active is already false and d_state already 0.
C1_PushAfterStateReset ==
    [][/\ ReturnsToStandBy =>
            /\ d_state \in {PositiveState, NegativeState}
            /\ PushedOne
            /\ queue'[Len(queue')].msg = (IF d_state = PositiveState THEN 1 ELSE 2)
            /\ queue'[Len(queue')].active = FALSE
            /\ queue'[Len(queue')].state = 0
       /\ ~ReturnsToStandBy => queue' = queue]_vars

\* C1 (amended): an attempt pushes exactly one message, 1 from PositiveAcq or 2 from
\* NegativeAcq, in the call that returns to StandBy and in no other call; when the
\* message is pushed d_active is already false; d_state is already 0 in
\* galileo_pcps_8ms, and still 4 or 5 in the fine-Doppler variant, which sets it to 0
\* right after the push.
C1_OneMessagePerAttempt ==
    [][/\ ReturnsToStandBy =>
            /\ d_state \in {PositiveState, NegativeState}
            /\ PushedOne
            /\ queue'[Len(queue')].msg = (IF d_state = PositiveState THEN 1 ELSE 2)
            /\ queue'[Len(queue')].active = FALSE
            /\ queue'[Len(queue')].state = (IF variant = "gal" THEN 0 ELSE d_state)
            /\ d_active' = FALSE
       /\ ~ReturnsToStandBy => queue' = queue]_vars

\* two attempts of a fine-Doppler block have ended, one negative and one positive
C1_Witness ==
    /\ variant = "fd"
    /\ d_state = 0
    /\ Len(queue) = 2
    /\ queue[1].msg = 2
    /\ queue[2].msg = 1

AtDecision == d_state \in {PositiveState, NegativeState}

\* C2: once the block has been activated and general_work keeps being invoked, the
\* attempt reaches PositiveAcq or NegativeAcq and from there returns to StandBy with
\* d_active cleared, whatever the threshold and max_dwells (0 included), in both variants.
C2_AcquisitionTerminates ==
    /\ d_active ~> AtDecision
    /\ AtDecision ~> (d_state = 0 /\ ~d_active)

\* a galileo_pcps_8ms attempt configured with max_dwells = 0 has ended negative, after
\* d_well_count wrapped around to 0
C2_Witness ==
    /\ variant = "gal"
    /\ d_max_dwells = 0
    /\ d_state = 0
    /\ Len(queue) >= 1
    /\ queue[Len(queue)].msg = 2
    /\ h_attempt.dwells = WellCountMod

\* the correlation magnitude of block in at Doppler bin k and delay index i of the
\* two-codes search: the larger of the code A and the code B magnitude
GridMagnitude(in, k, i) ==
    LET wiped == WipedOff(in, k, d_fft_size)
        corr_A == d_fft_size * CircCorr(wiped, CodeA(code), i, d_fft_size)
        corr_B == d_fft_size * CircCorr(wiped, CodeB(code), i, d_fft_size)
    IN  IF corr_A * corr_A >= corr_B * corr_B THEN corr_A * corr_A ELSE corr_B * corr_B

\* the galileo_pcps_8ms block has processed at least one dwell of the current attempt
GalAfterDwell == variant = "gal" /\ d_state \in {1, 2, 3} /\ h_in # <<>>

\* the fine-Doppler block has searched its grid and not yet refined the Doppler
FdAfterSearch == variant = "fd" /\ d_state \in {3, 5}

\* C3: after a dwell no (bin, index) pair of the grid has a magnitude strictly greater
\* than the recorded one. galileo_pcps_8ms: d_mag bounds the larger of the code A and
\* code B magnitudes of every pair of the dwell's block, and a nonzero d_mag is the
\* magnitude at the recorded (Doppler, delay). Fine-Doppler: the recorded pair holds
\* the largest value of the accumulated grid.
C3_RecordedPairIsGlobalMaximum ==
    /\ GalAfterDwell =>
          /\ \A k \in Indices(d_num_doppler_bins), i \in Indices(d_fft_size) :
                GridMagnitude(h_in, k, i) <= d_mag
          /\ d_mag > 0 =>
                \E k \in Indices(d_num_doppler_bins) :
                   /\ GalDoppler(k) = Acq_doppler_hz
                   /\ Acq_delay_samples \in Indices(d_fft_size)
                   /\ GridMagnitude(h_in, k, Acq_delay_samples) = d_mag
    /\ FdAfterSearch =>
          \E k \in Indices(d_num_doppler_bins) :
             /\ FdDoppler(k) = Acq_doppler_hz
             /\ Acq_delay_samples \in Indices(d_fft_size)
             /\ \A k2 \in Indices(d_num_doppler_bins), i2 \in Indices(d_fft_size) :
                   d_grid_data[k2][i2] <= d_grid_data[k][Acq_delay_samples]

\* a positive galileo_pcps_8ms dwell whose peak is a code B peak: every code A
\* magnitude of the recorded Doppler bin is smaller; the peak is not at delay 0
C3_Witness ==
    /\ GalAfterDwell
    /\ d_state = 2
    /\ Acq_delay_samples # 0
    /\ \E k \in Indices(d_num_doppler_bins) :
          /\ GalDoppler(k) = Acq_doppler_hz
          /\ \A i \in Indices(d_fft_size) :
                LET corr_A == d_fft_size * CircCorr(WipedOff(h_in, k, d_fft_size),
                                                    CodeA(code), i, d_fft_size)
                IN  corr_A * corr_A < d_mag

\* the largest magnitude of the grid of block in
GalGridMax(in) ==
    CHOOSE m \in {GridMagnitude(in, k, i) :
                     k \in Indices(d_num_doppler_bins), i \in Indices(d_fft_size)} :
        \A k \in Indices(d_num_doppler_bins), i \in Indices(d_fft_size) :
            GridMagnitude(in, k, i) <= m

\* galileo_pcps_8ms has taken its decision (positive or negative)
GalDecided == variant = "gal" /\ d_state \in {2, 3}

\* C4 (as stated): when galileo_pcps_8ms decides, d_mag is the largest magnitude over
\* all dwells of the attempt.
C4_PeakOverAllDwells == GalDecided => d_mag = h_attempt.best

\* C4 (amended): when galileo_pcps_8ms decides, d_mag is the largest magnitude of the
\* last dwell only (d_mag restarts from 0 in every dwell), so it may be smaller than the
\* peak of an earlier dwell; when it is nonzero, the recorded Doppler and delay are
\* those of the last dwell's peak and the sample stamp is that of the last dwell.
C4_PeakOfLastDwell ==
    GalDecided =>
       /\ d_mag = GalGridMax(h_in)
       /\ d_mag <= h_attempt.best
       /\ d_mag > 0 =>
             /\ \E k \in Indices(d_num_doppler_bins) :
                   /\ GalDoppler(k) = Acq_doppler_hz
                   /\ GridMagnitude(h_in, k, Acq_delay_samples) = GalGridMax(h_in)
             /\ Acq_samplestamp_samples = d_sample_counter

\* a decision after two dwells whose last dwell has a nonzero peak smaller than the
\* first dwell's
C4_Witness ==
    /\ GalDecided
    /\ h_attempt.dwells = 2
    /\ d_mag > 0
    /\ d_mag < h_attempt.best

\* C5 (as stated): galileo_pcps_8ms declares negative only after exactly max_dwells
\* dwells, none above the threshold; positive at the first dwell above the threshold;
\* an attempt whose dwells stay at or below the threshold never runs beyond max_dwells
\* dwells.
C5_NegativeAfterMaxDwells ==
    variant = "gal" =>
       /\ d_state = 3 => h_attempt.dwells = d_max_dwells /\ h_attempt.exceeded = 0
       /\ d_state = 2 => h_attempt.exceeded = h_attempt.dwells
       /\ d_state = 1 => h_attempt.exceeded = 0 /\ h_attempt.dwells <= d_max_dwells

\* max_dwells = 0: the attempt is in its third dwell although none exceeded the threshold
C5_Witness ==
    /\ variant = "gal"
    /\ d_max_dwells = 0
    /\ d_state = 1
    /\ h_attempt.dwells = 2
    /\ h_attempt.exceeded = 0

\* T >= thr[1]/thr[2] in IEEE arithmetic (false for NaN)
StatGE(T, thr) ==
    /\ ~(T.num = 0 /\ T.den = 0)
    /\ (T.num * thr[2]) * (T.num * thr[2]) >= (thr[1] * T.den) * (thr[1] * T.den) * T.wc

\* C6 (as stated): after Decide the fine-Doppler block is on the positive path
\* (state 3) exactly when T >= threshold, and on the negative path (state 5) exactly
\* when T < threshold.
C6_PositiveIffAtLeastThreshold ==
    FdAfterSearch => (d_state = 3 <=> StatGE(d_test_statistics, d_threshold))

\* the decision went negative with a test statistic equal to the threshold
C6_Witness ==
    /\ variant = "fd"
    /\ d_state = 5
    /\ StatGE(d_test_statistics, d_threshold)
    /\ ~StatGT(d_test_statistics, d_threshold)

FineFrequencies == {FftFreqBins(idx) : idx \in Indices(FftSizeExtended)}

\* C8: the fine-Doppler refinement step (state 3) always goes on to PositiveAcq
\* (state 4), leaves Acq_delay_samples, Acq_samplestamp_samples, d_active and the queue
\* unchanged, and leaves Acq_doppler_hz either unchanged or replaced by an FFT frequency
\* less than 1000 Hz away from the coarse value.
C8_RefinementWithin1000Hz ==
    [][fd_FineDoppler =>
          /\ d_state' = 4
          /\ Acq_delay_samples' = Acq_delay_samples
          /\ Acq_samplestamp_samples' = Acq_samplestamp_samples
          /\ d_active' = d_active
          /\ queue' = queue
          /\ \/ Acq_doppler_hz' = Acq_doppler_hz
             \/ /\ Acq_doppler_hz' \in FineFrequencies
                /\ Abs(Acq_doppler_hz' - Acq_doppler_hz) < 1000]_vars

\* a refinement was accepted: the Doppler reported in PositiveAcq is no point of the
\* coarse grid
C8_Witness ==
    /\ variant = "fd"
    /\ d_state = 4
    /\ \A k \in Indices(d_num_doppler_bins) : FdDoppler(k) # Acq_doppler_hz

\* ceil(a / b) for a >= 0, b > 0
CeilDiv(a, b) == (a + b - 1) \div b

\* the Doppler of bin k of the block's grid
BinDoppler(k) == IF variant = "gal" THEN GalDoppler(k) ELSE FdDoppler(k)

C10_DelayWithinCodeLength ==
    d_state = PositiveState =>
       /\ Acq_delay_samples >= 0
       /\ Acq_delay_samples < SamplesPerCode

\* a positive fine-Doppler acquisition over two code periods reports a delay of at
\* least one code length
C10_Witness ==
    /\ variant = "fd"
    /\ d_state = 4
    /\ d_sampled_ms = 2
    /\ Acq_delay_samples >= SamplesPerCode


\* ------------------------------------------------ tracking block properties
\* C11: once start_tracking() has completed for an assignment, a general_work call
\* that is in PullIn (d_state = 1) or enters it afterwards leaves the wait and reaches
\* state 2 without a second start_tracking() call, whatever the interleaving (as long
\* as tracking is not stopped).
C11_PullInHandshakeCompletes ==
    ([]~d_stop_tracking) => ((h_trk.signalled /\ d_state = 1) ~> (d_state = 2))

\* general_work waits in PullIn although the start_tracking() call it waits for has
\* already completed
C11_Witness ==
    /\ pc = "wait"
    /\ ~d_worker_is_done
    /\ h_trk.signalled
    /\ ctl = "idle"
    /\ ~d_stop_tracking

\* cycles of general_work, told apart by the position of general_work
PullInAlignment == pc = "wait" /\ pc' = "loop"

TrackingCycle == pc = "case" /\ d_state \in 2 .. 6 /\ pc' = "loop"

EvaluationCycle == pc = "case" /\ d_state \in {2, 4, 6} /\ pc' = "loop"

\* the step of set_gnss_synchro() that clears the counters
SynchroReset == ctl = "set_gnss_synchro" /\ ctl' = "idle"

\* C12 (first part): while d_state = 1 the sample counters, the start sample of the
\* correlators and the lock-status data change only in the alignment, which runs from
\* the wait with d_worker_is_done set by a start_tracking() that signalled after the
\* wait began (the flag is false when the wait begins and only start_tracking() sets
\* it), or in set_gnss_synchro(), which zeroes the counters.
C12_AlignmentGatedByHandshake ==
    /\ [][(d_state = 1 /\ ~SynchroReset
              /\ <<d_state, d_sample_counter, d_sample_counter_next, initial_sample,
                   d_cn0_estimation_counter, d_Prompt_buffer,
                   d_Prompt_circular_buffer>>' #
                 <<d_state, d_sample_counter, d_sample_counter_next, initial_sample,
                   d_cn0_estimation_counter, d_Prompt_buffer, d_Prompt_circular_buffer>>)
            => (PullInAlignment /\ d_worker_is_done /\ d_state' = 2)]_vars
    /\ [][(d_state = 1 /\ SynchroReset)
            => (d_state' = 1 /\ d_sample_counter' = 0 /\ d_sample_counter_next' = 0
                  /\ initial_sample' = initial_sample)]_vars
    /\ [][(pc # "wait" /\ pc' = "wait") => ~d_worker_is_done']_vars
    /\ [][(~d_worker_is_done /\ d_worker_is_done')
            => (ctl = "start_tracking" /\ ctl' = "idle")]_vars

TrackingState ==
    <<d_state, d_sample_counter, trackvars, d_acq_sample_stamp, d_acq_code_phase_samples,
      d_acquisition_gnss_synchro, d_stop_tracking>>

\* C13: between the start and the end of one cycle of states 2-6 (general_work holds
\* d_setlock and is not the thread that steps) no field of the tracking state is
\* written.
C13_NoWriteInsideCycle ==
    [][(d_state \in 2 .. 6 /\ d_setlock = "general_work" /\ pc' = pc)
         => UNCHANGED TrackingState]_vars

C13_Witness ==
    /\ d_state = 4
    /\ pc = "case"
    /\ d_setlock = "general_work"
    /\ ctl = "start_tracking"
    /\ d_acq_sample_stamp # 0

\* C14: no tracking cycle of states 2-6 runs between the completion of an assignment
\* (set_gnss_synchro with PRN > 0 followed by start_tracking) and its alignment.
C14_OnePullInPerAssignment ==
    [][TrackingCycle => ~h_trk.signalled]_vars

C14_Witness ==
    /\ h_trk.signalled
    /\ d_state = 4
    /\ pc = "loop"
    /\ d_sample_counter > initial_sample
    /\ d_worker_is_done

\* the lock evaluation of a cycle, read off the step: the carrier counter as the caller
\* hands it over (case 2 forces it when the synchronization takes too long), whether
\* the CN0 buffer is full, and the counters after the update of lines 629-655, in
\* which the smoothed indicators are the new d_carrier_lock_test and d_CN0_SNV_dB_Hz
HandedCarrier ==
    IF d_state = 2 /\ bit_synchronization_time_limit_s < ElapsedSeconds(d_sample_counter')
    THEN SyncTimeout
    ELSE d_carrier_lock_fail_counter

BufferFull == d_cn0_estimation_counter >= cn0_samples

UpdatedCarrier ==
    IF d_pull_in_transitory THEN HandedCarrier
    ELSE IF d_carrier_lock_test' < carrier_lock_th THEN HandedCarrier + 1
    ELSE IF HandedCarrier > 0 THEN HandedCarrier - 1
    ELSE 0

UpdatedCode ==
    IF d_pull_in_transitory THEN d_code_lock_fail_counter
    ELSE IF d_CN0_SNV_dB_Hz' < cn0_min THEN d_code_lock_fail_counter + 1
    ELSE IF d_code_lock_fail_counter > 0 THEN d_code_lock_fail_counter - 1
    ELSE 0

LockLost ==
    /\ BufferFull
    /\ UpdatedCarrier > max_carrier_lock_fail \/ UpdatedCode > max_code_lock_fail

\* C15: a lock evaluation loses lock (general_work goes to d_state = 1 and sets
\* loss_of_lock) exactly when the CN0 buffer is full and an updated fail counter is
\* above its maximum; it then publishes one event, zeroes both counters and unlocks
\* the FPGA channel; otherwise it publishes nothing.
C15_LossExactlyAboveMaximum ==
    [][EvaluationCycle
         => /\ (d_state' = 1) <=> LockLost
            /\ LockLost => /\ loss_of_lock'
                           /\ events' = events + 1
                           /\ d_carrier_lock_fail_counter' = 0
                           /\ d_code_lock_fail_counter' = 0
                           /\ ~channel_locked'
            /\ ~LockLost => /\ loss_of_lock' = loss_of_lock
                            /\ events' = events
                            /\ channel_locked' = channel_locked]_vars

C15_Witness ==
    /\ d_state = 1
    /\ pc = "loop"
    /\ loss_of_lock
    /\ events = 1
    /\ ~channel_locked
    /\ d_code_lock_fail_counter = 0
    /\ d_carrier_lock_fail_counter = 0
    /\ d_CN0_SNV_dB_Hz < cn0_min
    /\ ~d_pull_in_transitory

\* C16 (as stated): no counter is above its maximum after an evaluation that keeps
\* lock or in any state between cycles, and both counters are 0 whenever d_state = 1.
C16_BoundedAndZeroInPullIn ==
    /\ [][(EvaluationCycle /\ d_state' # 1)
            => /\ d_carrier_lock_fail_counter' <= max_carrier_lock_fail
               /\ d_code_lock_fail_counter' <= max_code_lock_fail]_vars
    /\ [](/\ d_carrier_lock_fail_counter <= max_carrier_lock_fail
          /\ d_code_lock_fail_counter <= max_code_lock_fail)
    /\ [](d_state = 1
            => d_carrier_lock_fail_counter = 0 /\ d_code_lock_fail_counter = 0)

\* C16 (amended): after an evaluation with the CN0 buffer full that keeps lock no
\* counter is above its maximum; the code counter is never above its maximum and the
\* carrier counter is above it only with one of the two forced values; both counters
\* are 0 when general_work sets d_state to 1, and while d_state = 1 only the telemetry
\* fault handler (forcing the carrier counter) and set_gnss_synchro (zeroing both)
\* change them.
C16_BoundedUnlessForced ==
    /\ [][(EvaluationCycle /\ BufferFull /\ d_state' # 1)
            => /\ d_carrier_lock_fail_counter' <= max_carrier_lock_fail
               /\ d_code_lock_fail_counter' <= max_code_lock_fail]_vars
    /\ [](/\ d_code_lock_fail_counter \in 0 .. max_code_lock_fail
          /\ d_carrier_lock_fail_counter
                \in (0 .. max_carrier_lock_fail) \cup {TelemetryFault, SyncTimeout})
    /\ [][(d_state # 1 /\ d_state' = 1)
            => d_carrier_lock_fail_counter' = 0 /\ d_code_lock_fail_counter' = 0]_vars
    /\ [][(d_state = 1 /\ d_state' = 1
              /\ <<d_carrier_lock_fail_counter, d_code_lock_fail_counter>>' #
                 <<d_carrier_lock_fail_counter, d_code_lock_fail_counter>>)
            => \/ /\ d_carrier_lock_fail_counter' = TelemetryFault
                  /\ d_code_lock_fail_counter' = d_code_lock_fail_counter
                  /\ d_setlock = "free"
               \/ /\ SynchroReset
                  /\ d_carrier_lock_fail_counter' = 0
                  /\ d_code_lock_fail_counter' = 0]_vars

C16_Witness ==
    /\ d_state = 1
    /\ pc = "wait"
    /\ d_carrier_lock_fail_counter = TelemetryFault
    /\ d_code_lock_fail_counter = 0
    /\ initial_sample > 0

\* C17: while a telemetry fault received in states 2-6 is outstanding the carrier fail
\* counter is above its maximum, and the next cycle that evaluates the lock status
\* declares loss of lock (one event, d_state = 1).
C17_FaultLeadsToLoss ==
    /\ [](h_trk.fault => d_carrier_lock_fail_counter > max_carrier_lock_fail)
    /\ [][(EvaluationCycle /\ h_trk.fault)
            => (d_state' = 1 /\ events' = events + 1)]_vars

C17_Witness ==
    /\ h_trk.fault
    /\ d_state \in 2 .. 6
    /\ pc = "idle"
    /\ d_carrier_lock_fail_counter = 0
    /\ ~d_pull_in_transitory
    /\ events = 0

\* C18: outside the pull-in transitory and with the CN0 buffer full, a lock evaluation
\* that keeps lock leaves the carrier counter one higher when the smoothed lock test is
\* below the threshold and one lower, not below 0, otherwise, and the code counter one
\* higher when the smoothed CN0 is below cn0_min and one lower, not below 0, otherwise;
\* an evaluation that loses lock leaves both at 0; no counter is negative in any state.
C18_CountersStepByOne ==
    /\ [][(EvaluationCycle /\ BufferFull /\ ~d_pull_in_transitory)
            => IF LockLost
               THEN d_carrier_lock_fail_counter' = 0 /\ d_code_lock_fail_counter' = 0
               ELSE /\ d_carrier_lock_fail_counter' =
                          IF d_carrier_lock_test' < carrier_lock_th
                          THEN HandedCarrier + 1
                          ELSE IF HandedCarrier = 0 THEN 0 ELSE HandedCarrier - 1
                    /\ d_code_lock_fail_counter' =
                          IF d_CN0_SNV_dB_Hz' < cn0_min
                          THEN d_code_lock_fail_counter + 1
                          ELSE IF d_code_lock_fail_counter = 0 THEN 0
                          ELSE d_code_lock_fail_counter - 1]_vars
    /\ [](d_carrier_lock_fail_counter >= 0 /\ d_code_lock_fail_counter >= 0)

C18_Witness ==
    /\ d_state \in {3, 4}
    /\ pc = "loop"
    /\ ~d_pull_in_transitory
    /\ d_cn0_estimation_counter >= cn0_samples
    /\ d_carrier_lock_fail_counter = 1
    /\ d_code_lock_fail_counter = 1
    /\ d_carrier_lock_test < carrier_lock_th
    /\ d_CN0_SNV_dB_Hz < cn0_min

\* the index of d_Prompt_buffer that a lock evaluation writes
PromptIndex ==
    IF d_cn0_estimation_counter < cn0_samples THEN d_cn0_estimation_counter
    ELSE d_cn0_estimation_counter % cn0_samples

\* C19: with fewer than cn0_samples evaluations since the last set_gnss_synchro with a
\* valid PRN (or the construction), a lock evaluation keeps lock, stores the Prompt
\* sample at the position of d_cn0_estimation_counter, adds one to that counter, and
\* leaves CN0, lock test, both fail counters and the events port as they were.
C19_PassWhileFilling ==
    [][(EvaluationCycle /\ h_trk.evals < cn0_samples)
         => /\ d_cn0_estimation_counter = h_trk.evals
            /\ d_state' # 1
            /\ loss_of_lock' = loss_of_lock
            /\ \E P \in PromptValues :
                  d_Prompt_buffer' = [d_Prompt_buffer EXCEPT ![h_trk.evals] = P]
            /\ d_cn0_estimation_counter' = h_trk.evals + 1
            /\ d_carrier_lock_fail_counter' = HandedCarrier
            /\ UNCHANGED <<d_CN0_SNV_dB_Hz, d_carrier_lock_test, d_code_lock_fail_counter,
                           events, channel_locked>>]_vars

C19_Witness ==
    /\ d_state = 2
    /\ pc = "loop"
    /\ h_trk.evals = cn0_samples
    /\ d_cn0_estimation_counter = cn0_samples
    /\ d_Prompt_buffer[cn0_samples - 1] # 0
    /\ d_CN0_SNV_dB_Hz = 0
    /\ d_carrier_lock_test = 100
    /\ d_carrier_lock_fail_counter = 0

\* the Prompt signs that acquire_secondary sees in a cycle of state 2: the circular
\* buffer after the Prompt of this cycle has been pushed
PromptWindow == PushBack(d_Prompt_circular_buffer, d_Prompt_buffer'[PromptIndex])

\* the number of positions of the window whose sign agrees with the code string
\* (negative Prompt for '0', non-negative Prompt for '1')
Agreements ==
    Cardinality({i \in 1 .. d_secondary_code_length :
                    (PromptWindow[i] < 0) <=> (d_secondary_code_string[i] = "0")})

\* C20: in a cycle of state 2 that calls acquire_secondary (lock kept, transitory over,
\* window full) the synchronization is accepted, and general_work leaves state 2,
\* exactly when every position agrees or every position disagrees; on acceptance
\* d_Flag_PLL_180_deg_phase_locked is true iff the correlation is negative; otherwise
\* the flag is unchanged and the state stays 2.
C20_AcceptedIffPerfectMatch ==
    [][(TrackingCycle /\ d_state = 2 /\ d_state' # 1 /\ ~d_pull_in_transitory
          /\ Len(PromptWindow) = d_secondary_code_length)
         => IF Agreements \in {0, d_secondary_code_length}
            THEN /\ d_state' = StateAfterSync
                 /\ d_Flag_PLL_180_deg_phase_locked' = (Agreements = 0)
                 /\ d_Prompt_circular_buffer' = <<>>
            ELSE /\ d_state' = 2
                 /\ d_Flag_PLL_180_deg_phase_locked' = d_Flag_PLL_180_deg_phase_locked
                 /\ d_Prompt_circular_buffer' = PromptWindow]_vars

C20_Witness ==
    /\ d_state \in {3, 5}
    /\ pc = "loop"
    /\ d_Flag_PLL_180_deg_phase_locked
    /\ d_Prompt_circular_buffer = <<>>
    /\ d_extend_correlation_symbols_count = 0
    /\ ~loss_of_lock

\* ------------------------------------------------------------------- C21
\* a cycle of the coherent integration outside the FPGA (states 3 and 4) that keeps
\* the lock
ExtendedCycle ==
    /\ pc = "case" /\ pc' = "loop"
    /\ d_state \in {3, 4}
    /\ d_enable_extended_integration
    /\ d_state' # 1

\* the number of cycles between two data symbol boundaries; 1 for a signal with at
\* most one symbol per bit, whose symbol counter never leaves 0
SymbolPeriod ==
    IF d_symbols_per_bit > 1
    THEN (IF d_data_secondary_code_length > 0 THEN d_data_secondary_code_length
          ELSE d_symbols_per_bit)
    ELSE 1

\* C21, as stated: with extended integration of N symbols and lock kept, exactly one
\* valid observable is produced per N cycles, the one of the narrow tracking cycle
\* that completes the round, for every signal configuration.
C21_OneValidPerRound ==
    [][ExtendedCycle => (Flag_valid_symbol_output' <=> d_state = 4)]_vars

\* C21, amended: with extended integration and lock kept, a cycle produces a valid
\* observable exactly when it ends a data symbol, that is once per SymbolPeriod
\* cycles counted from the synchronization, whatever the number N of integrated
\* symbols; for a signal with at most one symbol per bit every cycle produces one.
C21_OneValidPerDataSymbol ==
    [][ExtendedCycle =>
          /\ d_current_data_symbol' = (d_current_data_symbol + 1) % SymbolPeriod
          /\ Flag_valid_symbol_output' <=> (d_current_data_symbol' = 0)]_vars

\* a Galileo E1 block integrating 3 symbols has produced a valid observable in the
\* first cycle of a round
C21_Witness ==
    /\ variant = "trk"
    /\ pc = "loop"
    /\ d_state = 3
    /\ d_trk_parameters.extend_correlation_symbols = 3
    /\ d_extend_correlation_symbols_count = 1
    /\ SymbolPeriod = 1
    /\ Flag_valid_symbol_output
    /\ ~loss_of_lock

\* ------------------------------------------------------------------- C22
\* a step of the general_work call in progress
CallStep == pc # "idle" /\ pc' # pc

\* general_work returns
Returning == pc = "loop" /\ pc' = "idle"

\* C22: once stop_tracking() has set d_stop_tracking no cycle starts; a general_work
\* call that begins afterwards does nothing but return 0, without a record and
\* without a change of the state, the counters or the FPGA channel; a call that was
\* in flight starts no further cycle, and the record it may still write is the
\* valid record of a cycle it completed or the invalid record of a loss of lock.
C22_CancellationSafety ==
    [][/\ (pc = "loop" /\ pc' = "case") => ~d_stop_tracking
       /\ (CallStep /\ h_trk.after_stop) =>
             /\ Returning
             /\ returned' = 0
             /\ out' = NoRecord
             /\ UNCHANGED <<d_state, d_sample_counter, trackvars, fpgavars, events>>
       /\ (Returning /\ d_stop_tracking /\ returned' = 1) =>
             /\ Flag_valid_symbol_output \/ loss_of_lock
             /\ out'.Flag_valid_symbol_output = ~loss_of_lock]_vars

\* a call that began after stop_tracking() has returned 0 from the narrow tracking
\* state, and the call before it was stopped in flight
C22_Witness ==
    /\ variant = "trk"
    /\ pc = "idle"
    /\ d_stop_tracking
    /\ h_trk.after_stop
    /\ returned = 0
    /\ out = NoRecord
    /\ d_state = 4
    /\ d_sample_counter_next > d_sample_counter

\* ------------------------------------------------------------------- C23
\* C23: after stop_tracking() the general_work call in flight eventually returns,
\* in whichever state the tracking machine is, the PullIn wait included.
C23_StoppedCallReturns == d_stop_tracking ~> pc = "idle"

\* stop_tracking() has been called while general_work waits in the PullIn case for a
\* start_tracking() that has not come, after a loss of lock earlier in the same call
C23_Witness ==
    /\ variant = "trk"
    /\ pc = "wait"
    /\ d_stop_tracking
    /\ ~d_worker_is_done
    /\ ctl = "idle"
    /\ loss_of_lock

\* ------------------------------------------------------------------- C24
\* d_state is set back to 1
BackToPullIn == d_state # 1 /\ d_state' = 1

\* C24: d_state is set back to 1 by a cycle of state 2, 4 or 6 whose lock evaluation
\* fails, and by no other step; that cycle clears the tracking variables, writes no
\* dump record, leaves the phase ambiguity flag alone and produces no valid
\* observable, and the loss is remembered for the record of the call.
C24_PullInExactlyOnLockFailure ==
    [][/\ BackToPullIn <=> (EvaluationCycle /\ LockLost)
       /\ BackToPullIn =>
             /\ d_Prompt_circular_buffer' = <<>>
             /\ d_current_data_symbol' = 0
             /\ ~Flag_valid_symbol_output'
             /\ loss_of_lock'
             /\ UNCHANGED <<d_dump_file, d_Flag_PLL_180_deg_phase_locked,
                            d_local_code_shift_chips>>]_vars

\* a narrow tracking cycle in the middle of a data symbol has lost the lock
C24_Witness ==
    /\ variant = "trk"
    /\ pc = "loop"
    /\ d_state = 1
    /\ loss_of_lock
    /\ ~Flag_valid_symbol_output
    /\ d_local_code_shift_chips = "narrow"
    /\ d_current_data_symbol = 0
    /\ d_sample_counter_next > initial_sample
    /\ events = 1

\* ------------------------------------------------------------------- C25
\* C25: a returning general_work call writes one record and returns 1 exactly when
\* a valid symbol was produced or a loss of lock was detected during the call, and
\* otherwise returns 0 and writes nothing; the record is flagged invalid exactly
\* when lock was lost during the call, and carries d_sample_counter_next and the
\* current phase ambiguity flag.
C25_OutputRecordValidity ==
    [][Returning =>
          /\ returned' \in {0, 1}
          /\ (returned' = 1) <=> (Flag_valid_symbol_output \/ loss_of_lock)
          /\ (returned' = 1) <=> out'.written
          /\ out'.written =>
                /\ (~out'.Flag_valid_symbol_output) <=> loss_of_lock
                /\ out'.Tracking_sample_counter = d_sample_counter_next
                /\ out'.Flag_PLL_180_deg_phase_locked = d_Flag_PLL_180_deg_phase_locked]_vars

\* a call that lost lock, was handed a new acquisition and then completed a data
\* symbol has returned one record, flagged invalid
C25_Witness ==
    /\ variant = "trk"
    /\ pc = "idle"
    /\ returned = 1
    /\ out.written
    /\ ~out.Flag_valid_symbol_output
    /\ Flag_valid_symbol_output
    /\ loss_of_lock
    /\ d_state \in 3..6

\* ------------------------------------------------------------------- C26
\* the loop of general_work begins another cycle
BeginCycle == pc = "loop" /\ pc' = "case"

\* C26 as stated: a cycle of states 2-6 is the only one of its general_work call,
\* the loop ends after it.
C26_OneCyclePerCall ==
    [][TrackingCycle => ~LoopCondition']_vars

\* C26 (amended): a general_work call runs cycles until one of them produces a
\* valid symbol or stop_tracking() was called: it returns only then, begins a cycle
\* only while neither holds (a loss of lock does not end the call), and every
\* cycle of states 2-6 processes exactly one integration block.
C26_CyclesUntilValidSymbol ==
    [][/\ Returning => (Flag_valid_symbol_output \/ d_stop_tracking)
       /\ BeginCycle => (~Flag_valid_symbol_output /\ ~d_stop_tracking)
       /\ TrackingCycle =>
             /\ d_sample_counter' = d_sample_counter_next
             /\ d_sample_counter_next' = d_sample_counter_next + vector_length]_vars

\* a call that lost lock has gone on to the PullIn state and waits there for
\* the next acquisition
C26_Witness ==
    /\ variant = "trk"
    /\ pc = "wait"
    /\ loss_of_lock
    /\ ~Flag_valid_symbol_output
    /\ ~d_stop_tracking
    /\ d_state = 1
    /\ d_sample_counter_next > initial_sample

\* ------------------------------------------------------------------- C27
\* the wide tracking cycle that accepts the synchronization
Synchronized == pc = "case" /\ d_state = 2 /\ pc' = "loop" /\ d_state' \in 3 .. 6

\* C27: the cycle of state 2 that accepts the synchronization goes to state 3, 5 or
\* 6 when the integration is extended and to state 4 otherwise, and leaves the taps
\* at the narrow spacing on every branch; set_gnss_synchro with a valid PRN puts
\* them back to the wide spacing.
C27_NarrowTapsAfterSync ==
    [][/\ Synchronized =>
             /\ d_local_code_shift_chips' = "narrow"
             /\ IF d_enable_extended_integration
                THEN d_state' \in {3, 5, 6}
                ELSE d_state' = 4
       /\ SynchroReset => d_local_code_shift_chips' = "wide"]_vars

\* narrow tracking without extended integration runs on the wide spacing
C27_Witness ==
    /\ variant = "trk"
    /\ d_state = 4
    /\ ~d_enable_extended_integration
    /\ d_local_code_shift_chips = "wide"
    /\ Flag_valid_symbol_output
    /\ pc = "loop"

\* ------------------------------------------------------------------- C28
\* set_channel tried to open the dump file and failed
OpenFailed == d_dump_file.exceptions /\ ~d_dump_file.is_open

\* the constructor could not create the dump directory
DirectoryFailed == d_trk_parameters.dump /\ ~d_dump

\* C28: when the dump directory could not be created or the dump file could not be
\* opened, d_dump is false and no cycle attempts a dump write.
C28_DumpDisabledOnFailure ==
    /\ DirectoryFailed => (~d_dump_file.attempted /\ ~d_dump_file.is_open)
    /\ OpenFailed => (~d_dump /\ ~d_dump_file.attempted)

\* a tracking cycle has attempted a dump write on the file that failed to open
C28_Witness ==
    /\ variant = "trk"
    /\ OpenFailed
    /\ d_dump
    /\ d_dump_file.attempted
    /\ d_dump_file.failbit
    /\ d_dump_file.records = 0
    /\ d_state \in 2 .. 6

\* ------------------------------------------------------------------- C29
\* the system and signal codes tried, and the pairs among them the constructor knows
SystemCodes == {"G", "E", "R"}
SignalCodes == {"1C", "1B", "XX"}
KnownPairs == {<<"G", "1C">>, <<"E", "1B">>}

\* the members a degenerate configuration has
IsDegenerate(c) ==
    /\ c.d_signal_carrier_freq = 0
    /\ c.d_code_period = 0
    /\ c.d_symbols_per_bit = 0
    /\ ~c.d_secondary
    /\ c.d_correlation_length_ms = 1
    /\ ~c.d_veml

\* C29: for an unknown system code, or a known system with an unknown signal code,
\* the constructor yields carrier frequency 0, code period 0, 0 symbols per bit, no
\* secondary code and a correlation length of 1 ms, with 3 correlator taps, and the
\* block is constructed; for the known pairs it does not.
C29_DegenerateWhenUnknown ==
    /\ \A system \in SystemCodes, signal \in SignalCodes :
          IsDegenerate(SignalConfiguration(system, signal))
             <=> <<system, signal>> \notin KnownPairs
    /\ (variant = "trk"
           /\ <<d_trk_parameters.system, d_trk_parameters.signal>> \notin KnownPairs)
          => /\ IsDegenerate(Configured)
             /\ d_symbols_per_bit = 0
             /\ ~d_secondary
             /\ d_n_correlator_taps = 3
             /\ d_state \in 1 .. 6
             /\ d_current_fpga_integration_period >= 1

\* a Galileo block constructed with a GPS signal code waits in the PullIn state
\* for its acquisition
C29_Witness ==
    /\ variant = "trk"
    /\ d_trk_parameters.system = "E"
    /\ d_trk_parameters.signal # "1B"
    /\ pc = "wait"
    /\ d_state = 1
    /\ d_n_correlator_taps = 3
    /\ h_trk.assigned

\* ------------------------------------------------------------------- C30
\* a cycle of coherent extension, and a cycle of narrow tracking that keeps the lock
ExtensionCycle == pc = "case" /\ d_state = 3 /\ pc' = "loop"
NarrowCycle == pc = "case" /\ d_state = 4 /\ pc' = "loop" /\ d_state' # 1

\* C30: with extended integration of N symbols outside the FPGA, state 3 is held for
\* N-1 cycles counted by d_extend_correlation_symbols_count and followed by one
\* cycle of state 4, which goes back to state 3 when it keeps the lock; the lock
\* estimator runs in the cycle of state 4 only, a cycle of state 3 neither changes
\* its variables nor loses the lock; without extended integration state 4 follows
\* itself.
C30_ExtensionPeriod ==
    /\ [](d_state = 3 =>
             /\ d_enable_extended_integration
             /\ d_extend_correlation_symbols_count
                   \in 0 .. d_trk_parameters.extend_correlation_symbols - 2)
    /\ []((d_state = 4 /\ d_enable_extended_integration)
             => d_extend_correlation_symbols_count = 0)
    /\ [][/\ ExtensionCycle =>
                /\ IF d_extend_correlation_symbols_count
                         = d_trk_parameters.extend_correlation_symbols - 2
                   THEN d_state' = 4 /\ d_extend_correlation_symbols_count' = 0
                   ELSE /\ d_state' = 3
                        /\ d_extend_correlation_symbols_count'
                              = d_extend_correlation_symbols_count + 1
                /\ UNCHANGED <<d_carrier_lock_fail_counter, d_code_lock_fail_counter,
                               d_cn0_estimation_counter, d_CN0_SNV_dB_Hz,
                               d_carrier_lock_test, d_Prompt_buffer, loss_of_lock,
                               events>>
          /\ NarrowCycle =>
                /\ d_state' = IF d_enable_extended_integration THEN 3 ELSE 4
                /\ UNCHANGED d_extend_correlation_symbols_count]_vars

\* a block integrating 3 symbols is in its second consecutive cycle of state 3
C30_Witness ==
    /\ variant = "trk"
    /\ d_trk_parameters.extend_correlation_symbols = 3
    /\ d_state = 3
    /\ d_extend_correlation_symbols_count = 1
    /\ pc = "case"
    /\ ~loss_of_lock

\* ------------------------------------------------------------------- C33
\* C33: when the sample counter C read by PullIn is greater than the acquisition's
\* sample stamp plus code delay, the start offset A chosen satisfies A >= C and
\* A - C < L for the integration length L, A lies a whole number of integration
\* lengths after stamp plus delay, and PullIn leaves d_sample_counter =
\* d_sample_counter_next = A, the correlators started at A and d_state = 2.
C33_FirstAlignedBlock ==
    [][(PullInAlignment
          /\ h_trk'.counter_value > d_acq_sample_stamp + d_acq_code_phase_samples)
        => /\ d_sample_counter' >= h_trk'.counter_value
           /\ d_sample_counter' - h_trk'.counter_value < vector_length
           /\ d_sample_counter' >= d_acq_sample_stamp + d_acq_code_phase_samples
           /\ (d_sample_counter' - (d_acq_sample_stamp + d_acq_code_phase_samples))
                 % vector_length = 0
           /\ d_sample_counter_next' = d_sample_counter'
           /\ initial_sample' = d_sample_counter'
           /\ d_state' = 2]_vars

\* PullIn has started the correlators at a sample that lies before the counter value
\* it read
C33_Witness ==
    /\ variant = "trk"
    /\ pc = "loop"
    /\ d_state = 2
    /\ h_trk.counter_value = LateFpgaCounter
    /\ d_sample_counter < h_trk.counter_value
    /\ initial_sample = d_sample_counter
    /\ d_sample_counter_next = d_sample_counter

\* ------------------------------------------------------------------- C34
\* C34: every cycle of states 2-6 starts its block at the previous value of
\* d_sample_counter_next and ends it one integration length later; between two
\* pull-ins, in states 2-6, nothing else moves d_sample_counter_next, so that blocks
\* neither overlap nor leave a gap, and each record written carries a greater
\* Tracking_sample_counter than the record before it.
C34_ContiguousBlocks ==
    [][/\ TrackingCycle =>
             /\ d_sample_counter' = d_sample_counter_next
             /\ d_sample_counter_next' = d_sample_counter' + vector_length
       /\ (d_state \in 2 .. 6 /\ d_sample_counter_next' # d_sample_counter_next)
             => TrackingCycle
       /\ (Returning /\ out'.written /\ h_trk.last_record # -1)
             => out'.Tracking_sample_counter > h_trk.last_record]_vars

\* a tracking block whose counters were zeroed after it wrote a record: the
\* next block starts before the end of the last one
C34_Witness ==
    /\ variant = "trk"
    /\ pc = "case"
    /\ d_state \in 3 .. 6
    /\ h_trk.last_record > 0
    /\ d_sample_counter_next = 0
    /\ d_sample_counter_next < h_trk.last_record

\* ------------------------------------------------------------------- C35
\* a cycle of state 2 that finds the synchronization time limit exceeded
SyncTimedOut ==
    /\ pc = "case" /\ d_state = 2 /\ pc' = "loop"
    /\ bit_synchronization_time_limit_s < ElapsedSeconds(d_sample_counter')

\* C35: a cycle of state 2 in which the whole seconds since the acquisition sample
\* stamp exceed bit_synchronization_time_limit_s declares the loss of lock in that
\* same cycle: event 3 is published, the FPGA channel is unlocked, both fail
\* counters are 0 again and d_state is 1.
C35_TimeLimitLosesLock ==
    [][SyncTimedOut =>
          /\ d_state' = 1
          /\ loss_of_lock'
          /\ events' = events + 1
          /\ ~channel_locked'
          /\ d_carrier_lock_fail_counter' = 0
          /\ d_code_lock_fail_counter' = 0]_vars

\* a cycle of state 2 past the time limit has kept the lock: the forced counter is
\* still in place and no event was published
C35_Witness ==
    /\ variant = "trk"
    /\ pc = "loop"
    /\ d_state = 2
    /\ d_carrier_lock_fail_counter = SyncTimeout
    /\ bit_synchronization_time_limit_s < ElapsedSeconds(d_sample_counter)
    /\ ~loss_of_lock
    /\ events = 0
    /\ channel_locked

(***************************************************************************)
(* C36.  The pull-in transitory ends only at the top of a cycle, with the  *)
(* sample counter read (d_sample_counter > 0) and at least                 *)
(* (pull_in_time_s + 1) * fs_in samples past the acquisition stamp, the    *)
(* distance taken as the unsigned difference of the counter's width, so a  *)
(* counter before the stamp counts as far past it.  Both lock-fail         *)
(* counters are 0 after that step.  A cycle of state 2 that moves to one   *)
(* of the states 3 to 6 runs with the transitory over.                     *)
(***************************************************************************)
TransitoryEnds == d_pull_in_transitory /\ ~d_pull_in_transitory'

C36_TransitoryEndsAfterPullInTime ==
    [][/\ TransitoryEnds =>
             /\ pc = "loop" /\ pc' = "case"
             /\ d_sample_counter > 0
             /\ (d_sample_counter - d_acq_sample_stamp) % (2 ^ TrkCounterBits)
                    >= (pull_in_time_s + 1) * trk_fs_in
             /\ d_carrier_lock_fail_counter' = 0
             /\ d_code_lock_fail_counter' = 0
       /\ (d_state = 2 /\ d_state' \in 3 .. 6) => ~d_pull_in_transitory]_vars

\* The transitory has ended with the counter before the stamp.
C36_Witness ==
    /\ variant = "trk" /\ pc = "case" /\ d_state = 2
    /\ ~d_pull_in_transitory
    /\ d_sample_counter > 0
    /\ d_sample_counter < d_acq_sample_stamp
    /\ d_carrier_lock_fail_counter = 0 /\ d_code_lock_fail_counter = 0

(***************************************************************************)
(* C39.  Every acquisition attempt starts from a clean search state.  In   *)
(* the fine-Doppler block the step that enters ComputeGrid leaves every    *)
(* cell of the accumulated grid 0 and d_well_count 0.  In galileo_pcps_8ms *)
(* the step that enters state 1 leaves d_well_count, d_mag, d_input_power, *)
(* d_test_statistics and the three result fields 0.  A general_work call   *)
(* in StandBy with the block not active leaves the result fields as they   *)
(* were.                                                                   *)
(***************************************************************************)
Activation == d_state = 0 /\ d_state' = 1

AcqCall == nitems_read' # nitems_read

C39_CleanStartOfAttempt ==
    [][/\ (variant = "fd" /\ Activation) =>
             /\ d_well_count' = 0
             /\ DOMAIN d_grid_data' = 0 .. (d_num_doppler_bins - 1)
             /\ \A k \in DOMAIN d_grid_data' :
                   /\ DOMAIN d_grid_data'[k] = 0 .. (d_fft_size - 1)
                   /\ \A i \in DOMAIN d_grid_data'[k] : d_grid_data'[k][i] = 0
       /\ (variant = "gal" /\ Activation) =>
             /\ d_well_count' = 0 /\ d_mag' = 0 /\ d_input_power' = 0
             /\ d_test_statistics'.num = 0
             /\ Acq_delay_samples' = 0 /\ Acq_doppler_hz' = 0
             /\ Acq_samplestamp_samples' = 0
       /\ (variant \in {"gal", "fd"} /\ AcqCall /\ d_state = 0 /\ ~d_active) =>
             /\ Acq_delay_samples' = Acq_delay_samples
             /\ Acq_doppler_hz' = Acq_doppler_hz
             /\ Acq_samplestamp_samples' = Acq_samplestamp_samples]_vars

\* A second attempt has started clean after a first one that left results behind.
C39_Witness ==
    /\ variant = "gal" /\ d_state = 1 /\ d_active
    /\ Len(queue) = 1
    /\ h_attempt = NoAttempt
    /\ d_mag = 0 /\ d_well_count = 0 /\ Acq_samplestamp_samples = 0
    /\ d_sample_counter > 0

(***************************************************************************)
(* C40.  In both acquisition blocks the sample counter equals the number   *)
(* of samples consumed from the input since construction, both taken in    *)
(* the width of the counter: d_fft_size samples per item consumed in       *)
(* galileo_pcps_8ms, one sample per item in the fine-Doppler block.  A     *)
(* call of galileo_pcps_8ms in state 1 consumes exactly one item, a call   *)
(* of the fine-Doppler block exactly d_fft_size samples, and every step    *)
(* that changes d_state consumes.  The recorded sample stamp is a whole    *)
(* multiple of d_fft_size.                                                 *)
(***************************************************************************)
SamplesPerItem == IF variant = "gal" THEN d_fft_size ELSE 1

ItemsConsumed == (nitems_read' - nitems_read + SampleCounterMod) % SampleCounterMod

C40_CounterIsSamplesConsumed ==
    /\ [](variant \in {"gal", "fd"} =>
             /\ d_sample_counter = (SamplesPerItem * nitems_read) % SampleCounterMod
             /\ Acq_samplestamp_samples % d_fft_size = 0)
    /\ [][/\ (variant = "gal" /\ d_state = 1 /\ AcqCall) => ItemsConsumed = 1
          /\ (variant = "gal" /\ AcqCall) => ItemsConsumed \in 1 .. MaxItems
          /\ (variant = "fd" /\ AcqCall) => ItemsConsumed = d_fft_size
          /\ (variant \in {"gal", "fd"} /\ d_state' # d_state) => AcqCall
          /\ (variant \in {"gal", "fd"}) =>
                d_sample_counter' = (d_sample_counter + SamplesPerItem * ItemsConsumed)
                                        % SampleCounterMod]_vars

\* galileo_pcps_8ms: two items consumed in StandBy, one in the dwell that recorded
\* the stamp.
C40_Witness ==
    /\ variant = "gal" /\ d_state = 2
    /\ nitems_read = 3
    /\ d_sample_counter = (3 * d_fft_size) % SampleCounterMod
    /\ Acq_samplestamp_samples = d_sample_counter
    /\ Acq_samplestamp_samples > 0

(***************************************************************************)
(* C38.  At every transition from state 2 to one of the states 3 to 6 the  *)
(* extended accumulators (d_VE_accu, d_E_accu, d_P_accu, d_L_accu,         *)
(* d_VL_accu, d_P_data_accu) are zero, d_current_symbol and                *)
(* d_current_data_symbol are 0 and the prompt circular buffer is empty.    *)
(***************************************************************************)
C38_CleanExtendedCorrelator ==
    [][(variant = "trk" /\ d_state = 2 /\ d_state' \in 3 .. 6) =>
          /\ d_P_accu' = 0
          /\ d_P_data_accu' = 0
          /\ d_current_symbol' = 0
          /\ d_current_data_symbol' = 0
          /\ Len(d_Prompt_circular_buffer') = 0]_vars

\* The step has just been taken: the block stands at the top of the loop in one of
\* the states 3 to 6, with no record written since the pull-in.
C38_Witness ==
    /\ variant = "trk" /\ pc = "loop" /\ d_state \in 3 .. 6
    /\ d_P_accu = 0 /\ d_P_data_accu = 0
    /\ d_current_data_symbol = 0 /\ d_current_symbol = 0
    /\ d_Prompt_circular_buffer = <<>>
    /\ ~Flag_valid_symbol_output
    /\ h_trk.last_record = -1

(***************************************************************************)
(* C31.  A cycle of the states 3 to 6 produces a valid observable exactly  *)
(* when the data symbol index is 0 after save_correlation_results and, in  *)
(* the states 4 and 6, the lock was kept; d_P_data_accu is zero after an   *)
(* emission.  With S = d_symbols_per_bit > 1, no data secondary code and   *)
(* an FPGA integration period of 1, the emitted prompt sums exactly S      *)
(* blocks, and between emissions the accumulator grows by one block per    *)
(* cycle and holds as many blocks as the data symbol index says.           *)
(***************************************************************************)
SymbolCycle == variant = "trk" /\ pc = "case" /\ d_state \in 3 .. 6 /\ pc' = "loop"

LockKept == d_state' # 1

SymbolAfterSave ==
    IF d_symbols_per_bit > 1
    THEN (d_current_data_symbol + d_current_fpga_integration_period)
            % (IF d_data_secondary_code_length > 0 THEN d_data_secondary_code_length
               ELSE d_symbols_per_bit)
    ELSE d_current_data_symbol

BitOverSymbols ==
    /\ d_symbols_per_bit > 1
    /\ d_data_secondary_code_length = 0
    /\ d_current_fpga_integration_period = 1

C31_ObservableEveryBit ==
    [][SymbolCycle =>
          /\ Flag_valid_symbol_output' <=> (SymbolAfterSave = 0 /\ LockKept)
          /\ Flag_valid_symbol_output' => d_P_data_accu' = 0
          /\ BitOverSymbols =>
                /\ d_P_data_accu = d_current_data_symbol
                /\ Flag_valid_symbol_output' => Prompt_I' = d_symbols_per_bit
                /\ (LockKept /\ ~Flag_valid_symbol_output') =>
                      /\ d_P_data_accu' = d_P_data_accu + 1
                      /\ d_P_data_accu' < d_symbols_per_bit]_vars

\* An observable has been emitted that sums the S blocks of a bit.
C31_Witness ==
    /\ variant = "trk" /\ pc = "loop" /\ d_state \in 3 .. 6
    /\ d_symbols_per_bit > 1 /\ d_current_fpga_integration_period = 1
    /\ Flag_valid_symbol_output
    /\ Prompt_I = d_symbols_per_bit
    /\ d_P_data_accu = 0 /\ d_current_data_symbol = 0

(***************************************************************************)
(* C32.  The carrier Doppler correction is one-shot: between two calls of  *)
(* start_tracking the carrier loop filter is re-seeded by run_dll_pll at   *)
(* most once.  It fires only with enable_doppler_correction set, the       *)
(* pull-in transitory over, the history of filtered code errors just       *)
(* filled and an average above 1 chip/s in absolute value.  The history is *)
(* emptied every time it fills, and only start_tracking re-arms the        *)
(* correction.                                                             *)
(***************************************************************************)
HistorySum == SumTo([i \in Indices(Len(d_dll_filt_history)) |-> d_dll_filt_history[i + 1]],
                    Len(d_dll_filt_history))

Reseeded == h_corrections' = h_corrections + 1

HistoryPushed == d_dll_filt_history' # d_dll_filt_history

C32_OneShotDopplerCorrection ==
    /\ [](variant = "trk" =>
             /\ h_corrections <= 1
             /\ Len(d_dll_filt_history) < DllHistoryCapacity)
    /\ [][variant = "trk" =>
             /\ Reseeded =>
                   /\ d_trk_parameters.enable_doppler_correction
                   /\ ~d_pull_in_transitory
                   /\ ~d_corrected_doppler /\ d_corrected_doppler'
                   /\ Len(d_dll_filt_history) = DllHistoryCapacity - 1
                   /\ \E err \in CodeErrors : Abs(HistorySum + err) > DllHistoryCapacity
                   /\ pc = "case" /\ d_state \in {2, 4, 6} /\ d_state' # 1
             /\ HistoryPushed =>
                   /\ d_trk_parameters.enable_doppler_correction
                   /\ ~d_pull_in_transitory /\ ~d_corrected_doppler
                   /\ IF Len(d_dll_filt_history) = DllHistoryCapacity - 1
                      THEN d_dll_filt_history' = <<>>
                      ELSE Len(d_dll_filt_history') = Len(d_dll_filt_history) + 1
             /\ (d_corrected_doppler' /\ ~d_corrected_doppler) => Reseeded
             /\ (d_corrected_doppler /\ ~d_corrected_doppler') => ctl' = "start_tracking"]_vars

\* The correction has fired and the tracking goes on with an empty history.
C32_Witness ==
    /\ variant = "trk" /\ pc = "case" /\ d_state = 4
    /\ d_trk_parameters.enable_doppler_correction
    /\ d_corrected_doppler /\ h_corrections = 1
    /\ d_dll_filt_history = <<>>
    /\ ~d_pull_in_transitory

\* ------------------------------------------------ tracking: the code NCO
\* The block-length arithmetic of update_tracking_vars, cycle by cycle.  One action is
\* one pass of the loop of general_work that reaches its case: the lock test, the
\* loop filters and the correlators are left out, the outcome of the lock test and of
\* the synchronization and the code period of the track are drawn.

\* the configurations of GPS L1 C/A without Doppler correction
NcoConfigs ==
    { c \in TrkConfigs \cup OtherConfigs :
         c.system = "G" /\ c.signal = "1C" /\ ~c.enable_doppler_correction /\ ~c.dump }

\* everything but the code NCO, the state and the integration period
ncorest == <<blockcfg, d_active, d_well_count, d_mag, d_input_power, d_test_statistics,
             d_grid_data, queue, h_in, h_attempt, nitems_read, synchro, d_sample_counter,
             gwvars, lockvars, dopvars, acqcopy, ctlvars, d_stop_tracking,
             d_worker_is_done, fpgavars, events, h_trk, accuvars,
             d_carrier_lock_fail_counter, d_code_lock_fail_counter,
             d_cn0_estimation_counter, d_CN0_SNV_dB_Hz, d_carrier_lock_test,
             d_pull_in_transitory, d_Prompt_buffer, d_Prompt_circular_buffer,
             d_Flag_PLL_180_deg_phase_locked, d_sample_counter_next,
             d_current_data_symbol, d_trk_parameters, d_dump, d_dump_file,
             d_local_code_shift_chips>>

\* d_T_prn_samples * period + remainder
BlkSamples(T, period, rem) == T * period + rem

\* the K of update_tracking_vars for the code period T
UpdatedBlkSamples(T) ==
    BlkSamples(T, d_current_fpga_integration_period, d_rem_code_phase_samples)

\* the top of the loop followed by update_tracking_vars with the code period T; K is
\* the value d_K_blk_samples has at the end of the cycle, the one of
\* update_tracking_vars or the one corrected after the synchronization
update_tracking_vars(T, K) ==
    /\ d_current_integration_length_samples' = d_next_integration_length_samples
    /\ d_T_prn_samples' = T
    /\ d_rem_code_phase_samples_prev' = d_rem_code_phase_samples
    /\ d_rem_code_phase_samples' =
          UpdatedBlkSamples(T) - SampleFraction * d_next_integration_length_samples
    /\ d_K_blk_samples' = K
    /\ d_next_integration_length_samples' = FloorSamples(K)

\* d_K_blk_samples after the synchronization in state 2 ("correction on already
\* computed parameters"); d_rem_code_phase_samples_prev is by then the remainder the
\* cycle started with
CorrectedBlkSamples(T) ==
    IF d_enable_extended_integration /\ d_trk_parameters.extended_correlation_in_fpga
    THEN IF d_trk_parameters.extend_fpga_integration_periods > 1
         THEN BlkSamples(T, d_trk_parameters.fpga_integration_period,
                         d_rem_code_phase_samples)
         ELSE BlkSamples(T, d_trk_parameters.extend_correlation_symbols,
                         d_rem_code_phase_samples)
    ELSE UpdatedBlkSamples(T)

\* state 1: set_gnss_synchro has prepared the track and start_tracking has released
\* the pull-in, which ends in state 2.  The pull-in sets the code frequency from the
\* Doppler of the acquisition: d_T_prn_samples holds from here on the code period of
\* that frequency, which the loop filter moves by less than one step of the fixed
\* point during the track
nco_PullIn ==
    /\ d_state = 1
    /\ d_T_prn_samples' \in PrnPeriods
    /\ d_rem_code_phase_samples' = 0
    /\ d_current_integration_length_samples' = vector_length
    /\ d_next_integration_length_samples' = vector_length
    /\ d_current_fpga_integration_period' = 1
    /\ d_state' = 2
    /\ UNCHANGED <<d_K_blk_samples, d_rem_code_phase_samples_prev,
                   d_extend_correlation_symbols_count, ncorest>>

\* states 2, 4 and 6: the lock test fails, update_tracking_vars is not reached
nco_LossOfLock ==
    /\ d_state \in {2, 4, 6}
    /\ d_current_integration_length_samples' = d_next_integration_length_samples
    /\ d_state' = 1
    /\ UNCHANGED <<d_T_prn_samples, d_K_blk_samples, d_rem_code_phase_samples,
                   d_rem_code_phase_samples_prev, d_next_integration_length_samples,
                   d_current_fpga_integration_period,
                   d_extend_correlation_symbols_count, ncorest>>

\* state 2, lock kept: synchronized tells whether the bit or secondary code
\* synchronization succeeds in this cycle
nco_WideTrack ==
    /\ d_state = 2
    /\ \E T \in {d_T_prn_samples}, synchronized \in BOOLEAN :
          IF synchronized
          THEN /\ update_tracking_vars(T, CorrectedBlkSamples(T))
               /\ d_extend_correlation_symbols_count' =
                     IF d_enable_extended_integration THEN 0
                     ELSE d_extend_correlation_symbols_count
               /\ d_current_fpga_integration_period' =
                     IF d_enable_extended_integration
                        /\ d_trk_parameters.extended_correlation_in_fpga
                     THEN d_trk_parameters.fpga_integration_period
                     ELSE d_current_fpga_integration_period
               /\ d_state' = StateAfterSync
          ELSE /\ update_tracking_vars(T, UpdatedBlkSamples(T))
               /\ UNCHANGED <<d_extend_correlation_symbols_count,
                              d_current_fpga_integration_period, d_state>>
    /\ UNCHANGED ncorest

\* states 3 and 5: the loop filters do not run
nco_CoherentExtend ==
    /\ d_state \in {3, 5}
    /\ update_tracking_vars(d_T_prn_samples, UpdatedBlkSamples(d_T_prn_samples))
    /\ LET count_to == IF d_state = 3 THEN ExtendCycles
                       ELSE d_trk_parameters.extend_fpga_integration_periods - 1
       IN  IF d_extend_correlation_symbols_count + 1 = count_to
           THEN /\ d_extend_correlation_symbols_count' = 0
                /\ d_state' = d_state + 1
           ELSE /\ d_extend_correlation_symbols_count' =
                      d_extend_correlation_symbols_count + 1
                /\ d_state' = d_state
    /\ UNCHANGED <<d_current_fpga_integration_period, ncorest>>

\* states 4 and 6, lock kept
nco_NarrowTrack ==
    /\ d_state \in {4, 6}
    /\ update_tracking_vars(d_T_prn_samples, UpdatedBlkSamples(d_T_prn_samples))
    /\ d_state' = IF d_state = 4
                  THEN (IF d_enable_extended_integration THEN 3 ELSE 4)
                  ELSE (IF d_trk_parameters.extend_fpga_integration_periods > 1
                        THEN 5 ELSE 6)
    /\ d_extend_correlation_symbols_count' =
          IF d_state = 6 THEN 0 ELSE d_extend_correlation_symbols_count
    /\ UNCHANGED <<d_current_fpga_integration_period, ncorest>>

NcoInit ==
    /\ variant = "trk"
    /\ AcqDormant
    /\ TrkConstructed
    /\ d_trk_parameters \in NcoConfigs
    /\ d_dump = FALSE
    /\ d_state = 1
    /\ d_sample_counter = 0
    /\ Acq_delay_samples = 0
    /\ Acq_doppler_hz = 0
    /\ Acq_samplestamp_samples = 0

NcoNext ==
    \/ nco_PullIn
    \/ nco_LossOfLock
    \/ nco_WideTrack
    \/ nco_CoherentExtend
    \/ nco_NarrowTrack

NcoSpec == NcoInit /\ [][NcoNext]_vars

\* a cycle that reaches update_tracking_vars
UpdateCall == d_state \in 2 .. 6 /\ d_state' # 1

\* the block length that follows an update is the floor of d_K_blk_samples
NextLengthIsFloor ==
    [][UpdateCall => d_next_integration_length_samples' = FloorSamples(d_K_blk_samples')]_vars

\* C37: after every call of update_tracking_vars the next integration length is
\* floor(K), K being T_prn_samples * integration period + the previous remainder, and
\* the remainder carried forward is at least 0 and less than 1 sample, in every
\* cycle, the one of the switch to the extended length included.
C37_FractionalRemainder ==
    [][UpdateCall
         => /\ d_next_integration_length_samples' = FloorSamples(d_K_blk_samples')
            /\ d_K_blk_samples' \in
                  { BlkSamples(d_T_prn_samples', p, d_rem_code_phase_samples) :
                       p \in {d_current_fpga_integration_period',
                              d_trk_parameters.extend_correlation_symbols} }
            /\ 0 <= d_rem_code_phase_samples'
            /\ d_rem_code_phase_samples' < SampleFraction]_vars

\* C37: a track in which the remainder carried forward is a whole sample or more
C37_Witness ==
    /\ d_state \in 2 .. 6
    /\ d_T_prn_samples \in PrnPeriods
    /\ d_rem_code_phase_samples >= SampleFraction

\* a track in which the remainder carried forward is negative
NegativeRemainder ==
    /\ d_state \in 2 .. 6
    /\ d_T_prn_samples \in PrnPeriods
    /\ d_rem_code_phase_samples < 0

====
